---------------------------- MODULE Spec2Model ----------------------------
(* A model of the masca chess engine: the redundant board representation  *)
(* (mailbox + per-kind and per-colour bitboards), the state stack,        *)
(* make_move / unmake_move, FEN import, the pseudo-legal move generator   *)
(* and the perft driver.                                                  *)
(*                                                                        *)
(* A Bitboard (u64) is modelled as the set of the squares whose bit is    *)
(* set: `|` is \cup, `&` is \cap, `^` is the symmetric difference, `!` is *)
(* the complement in 0..63 and lsb() is the minimum.                      *)
EXTENDS Integers, Sequences, FiniteSets, TLC

(**************************************************************************)
(* types.rs                                                               *)
(**************************************************************************)
White == 0
Black == 1

Pawn == 0
Knight == 1
Bishop == 2
Rook == 3
Queen == 4
King == 5

PieceTypeNUM == 6

\* Option::None of Option<Piece> and of Option<Square>
None == -1

Squares == 0..63

A1 == 0
B1 == 1
C1 == 2
D1 == 3
E1 == 4
F1 == 5
G1 == 6
H1 == 7
F3 == 21
F6 == 45
A8 == 56
B8 == 57
C8 == 58
D8 == 59
E8 == 60
F8 == 61
G8 == 62
H8 == 63

\* impl Not for Color
Opp(c) == IF c = White THEN Black ELSE White

\* Square::rank, Square::file
RankOf(sq) == sq \div 8
FileOf(sq) == sq % 8

\* Square::north, Square::south (defined only while the step stays on the board)
north(sq) == sq + 8
south(sq) == sq - 8

\* Piece::new, Piece::get_color, Piece::get_type
PieceNew(color, ptype) == color * 6 + ptype
get_color(p) == p \div 6
get_type(p) == p % 6

(**************************************************************************)
(* bitboard.rs                                                            *)
(**************************************************************************)
\* a bitwise or where the board code has ^=: the toggled bit is never cleared
Xor_as_or(a, b) == a \cup b

\* BitXor for Bitboard
Xor(a, b) == (a \ b) \cup (b \ a)

\* Bitboard::from_square / Square::bb
bb(sq) == {sq}

\* Bitboard::lsb (trailing_zeros) of a non-empty bitboard
lsb(s) == CHOOSE x \in s : \A y \in s : x <= y

rank_1 == 0..7
rank_8 == 56..63
file_A == {sq \in Squares : sq % 8 = 0}
file_H == {sq \in Squares : sq % 8 = 7}
square_to_rank(sq) == {s \in Squares : s \div 8 = sq \div 8}
square_to_file(sq) == {s \in Squares : s % 8 = sq % 8}

\* The squares of a bitboard in the order pop_lsb() yields them
RECURSIVE PopOrder(_)
PopOrder(s) == IF s = {} THEN << >> ELSE <<lsb(s)>> \o PopOrder(s \ {lsb(s)})

\* the elements of a sequence
Range(seq) == {seq[i] : i \in 1..Len(seq)}

RECURSIVE Flatten(_)
Flatten(ss) == IF ss = << >> THEN << >> ELSE Head(ss) \o Flatten(Tail(ss))

(**************************************************************************)
(* attack.rs: leaper tables                                               *)
(**************************************************************************)
KNIGHT_DELTAS == << <<2, 1>>, <<2, -1>>, <<1, 2>>, <<1, -2>>,
                    <<-1, 2>>, <<-1, -2>>, <<-2, 1>>, <<-2, -1>> >>
KING_DELTAS == << <<0, 1>>, <<1, 1>>, <<1, 0>>, <<1, -1>>,
                  <<0, -1>>, <<-1, -1>>, <<-1, 0>>, <<-1, 1>> >>

LeaperTable(deltas) ==
    [sq \in Squares |->
        { (RankOf(sq) + deltas[i][1]) * 8 + (FileOf(sq) + deltas[i][2]) :
            i \in { j \in 1..Len(deltas) :
                      /\ RankOf(sq) + deltas[j][1] \in 0..7
                      /\ FileOf(sq) + deltas[j][2] \in 0..7 } }]

\* a knight that only jumps towards rank 8
knight_forward == LeaperTable(SubSeq(KNIGHT_DELTAS, 1, 4))

knight == LeaperTable(KNIGHT_DELTAS)
king == LeaperTable(KING_DELTAS)

pawn_capture ==
    [c \in {White, Black} |-> [sq \in Squares |->
        IF c = White
        THEN IF RankOf(sq) < 7
             THEN (IF FileOf(sq) > 0 THEN {sq + 7} ELSE {})
                  \cup (IF FileOf(sq) < 7 THEN {sq + 9} ELSE {})
             ELSE {}
        ELSE IF RankOf(sq) > 0
             THEN (IF FileOf(sq) > 0 THEN {sq - 9} ELSE {})
                  \cup (IF FileOf(sq) < 7 THEN {sq - 7} ELSE {})
             ELSE {}]]

pawn_push ==
    [c \in {White, Black} |-> [sq \in Squares |->
        IF c = White
        THEN IF RankOf(sq) < 7 THEN {sq + 8} ELSE {}
        ELSE IF RankOf(sq) > 0 THEN {sq - 8} ELSE {}]]

\* the double push of Black taken from the rank below its pawn rank
pawn_double_push_rank5 ==
    [c \in {White, Black} |-> [sq \in Squares |->
        IF c = White
        THEN IF RankOf(sq) = 1 THEN {sq + 16} ELSE {}
        ELSE IF RankOf(sq) = 5 THEN {sq - 16} ELSE {}]]

pawn_double_push ==
    [c \in {White, Black} |-> [sq \in Squares |->
        IF c = White
        THEN IF RankOf(sq) = 1 THEN {sq + 16} ELSE {}
        ELSE IF RankOf(sq) = 6 THEN {sq - 16} ELSE {}]]

(**************************************************************************)
(* magics.rs: slider tables                                               *)
(**************************************************************************)
ROOK_DELTAS == << <<0, 1>>, <<1, 0>>, <<0, -1>>, <<-1, 0>> >>
BISHOP_DELTAS == << <<1, 1>>, <<1, -1>>, <<-1, 1>>, <<-1, -1>> >>

\* one direction of the ray walk of relevant_occupancy_mask: to the edge
RECURSIVE FullRay(_, _, _, _)
FullRay(r, f, dr, df) ==
    IF r \in 0..7 /\ f \in 0..7
    THEN {r * 8 + f} \cup FullRay(r + dr, f + df, dr, df)
    ELSE {}

\* the rays to the edge, the edge squares kept
relevant_occupancy_mask_with_edges(square, deltas) ==
    UNION { FullRay(RankOf(square) + deltas[i][1], FileOf(square) + deltas[i][2],
                    deltas[i][1], deltas[i][2]) : i \in 1..Len(deltas) }

\* a mask that drops every edge square, wherever the square stands
relevant_occupancy_mask_inner(square, deltas) ==
    UNION { FullRay(RankOf(square) + deltas[i][1], FileOf(square) + deltas[i][2],
                    deltas[i][1], deltas[i][2]) : i \in 1..Len(deltas) }
        \ (rank_1 \cup rank_8 \cup file_A \cup file_H)

relevant_occupancy_mask(square, deltas) ==
    LET rank_edges == (rank_1 \cup rank_8) \ square_to_rank(square)
        file_edges == (file_A \cup file_H) \ square_to_file(square)
        edges == rank_edges \cup file_edges
        mask == UNION { FullRay(RankOf(square) + deltas[i][1],
                                FileOf(square) + deltas[i][2],
                                deltas[i][1], deltas[i][2]) : i \in 1..Len(deltas) }
    IN mask \ edges

\* one direction of sliding_attack: outward, stopping at and including the
\* first blocker
RECURSIVE BlockedRay(_, _, _, _, _)
BlockedRay(r, f, dr, df, occupancy) ==
    IF r \in 0..7 /\ f \in 0..7
    THEN IF (r * 8 + f) \in occupancy
         THEN {r * 8 + f}
         ELSE {r * 8 + f} \cup BlockedRay(r + dr, f + df, dr, df, occupancy)
    ELSE {}

sliding_attack(square, deltas, occupancy) ==
    UNION { BlockedRay(RankOf(square) + deltas[i][1], FileOf(square) + deltas[i][2],
                       deltas[i][1], deltas[i][2], occupancy) : i \in 1..Len(deltas) }

rook_masks == [sq \in Squares |-> relevant_occupancy_mask(sq, ROOK_DELTAS)]
bishop_masks == [sq \in Squares |-> relevant_occupancy_mask(sq, BISHOP_DELTAS)]

\* The flat tables that search_loop fills: the entry that the magic index of
\* (occ & mask) selects holds sliding_attack of that masked occupancy (an
\* accepted magic maps no two occupancies with different attacks to one slot).
rook_lookup(sq, relevant) == sliding_attack(sq, ROOK_DELTAS, relevant)
bishop_lookup(sq, relevant) == sliding_attack(sq, BISHOP_DELTAS, relevant)

(**************************************************************************)
(* magics.rs: the search for the magic multipliers.  A u64 that is used   *)
(* as a number is the tuple of its eight bytes, least significant first.  *)
(**************************************************************************)
ROOK_MAP_SIZE == 102400
BISHOP_MAP_SIZE == 5248

\* the invariant check of generate_magics: the sum over the squares of
\* 1 << mask.count_ones()
RECURSIVE SlotsBefore(_, _)
SlotsBefore(masks, sq) ==
    IF sq = 0 THEN 0
    ELSE SlotsBefore(masks, sq - 1) + 2 ^ Cardinality(masks[sq - 1])
total_rook_slots == SlotsBefore(rook_masks, 64)
total_bishop_slots == SlotsBefore(bishop_masks, 64)

\* [0; 64] of MagicTables::new
ZeroU64 == <<0, 0, 0, 0, 0, 0, 0, 0>>

\* Bitboard.0 of a set of squares
Bytes(S) ==
    [i \in 1..8 |->
        LET bit(k) == IF (8 * (i - 1) + k) \in S THEN 2 ^ k ELSE 0
        IN bit(0) + bit(1) + bit(2) + bit(3) + bit(4) + bit(5) + bit(6) + bit(7)]

\* u8::count_ones
count_ones(byte) == Cardinality({k \in 0..7 : (byte \div (2 ^ k)) % 2 = 1})

\* u64::wrapping_mul: the low eight bytes of the product
RECURSIVE ColumnSum(_, _, _, _)
ColumnSum(a, b, k, i) ==
    IF i > k THEN 0 ELSE a[i] * b[k + 1 - i] + ColumnSum(a, b, k, i + 1)
RECURSIVE MulFrom(_, _, _, _)
MulFrom(a, b, k, carry) ==
    IF k > 8 THEN << >>
    ELSE LET c == ColumnSum(a, b, k, 1) + carry
         IN <<c % 256>> \o MulFrom(a, b, k + 1, c \div 256)
wrapping_mul(a, b) == MulFrom(a, b, 1, 0)

\* the index is cut from the two top bytes: a shift by 64 - n with
\* 1 <= n <= 16 keeps the top n bits
\* ((occ & mask) * magic) >> (64 - mask.count_ones())
magic_index(occ, mask, magic) ==
    LET product == wrapping_mul(Bytes(occ \cap mask), magic)
    IN (product[8] * 256 + product[7]) \div (2 ^ (16 - Cardinality(mask)))

\* the quick entropy rejection of search_loop
entropy_rejected(mask, magic) ==
    count_ones(wrapping_mul(Bytes(mask), magic)[8]) < 6

\* MagicTables::enumerate_occupancies: entry number `subset` of the list
Occupancy(relevant_square_indices, subset) ==
    {relevant_square_indices[i] : i \in
        {j \in 1..Len(relevant_square_indices) : (subset \div (2 ^ (j - 1))) % 2 = 1}}
enumerate_occupancies(mask) ==
    LET relevant_square_indices == PopOrder(mask)
    IN [subset \in 0..(2 ^ Cardinality(mask) - 1) |->
           Occupancy(relevant_square_indices, subset)]

\* MagicTables::attacks_for_square
attacks_for_square(square, deltas) ==
    LET occupancies == enumerate_occupancies(relevant_occupancy_mask(square, deltas))
    IN [i \in DOMAIN occupancies |-> sliding_attack(square, deltas, occupancies[i])]

\* one candidate that keeps a colliding entry instead of giving up
TableStep_no_collision(t, i, mask, occupancies, attacks, magic) ==
    LET index == magic_index(occupancies[i], mask, magic)
    IN IF t.table[index] = << >>
       THEN [t EXCEPT !.table[index] = <<attacks[i]>>]
       ELSE t

\* one turn of the loop over the occupancies: temp_table[index] is << >>
\* for None and <<attack>> for Some(attack)
TableStep(t, i, mask, occupancies, attacks, magic) ==
    LET index == magic_index(occupancies[i], mask, magic)
    IN IF t.table[index] = << >>
       THEN [t EXCEPT !.table[index] = <<attacks[i]>>]
       ELSE IF t.table[index] = <<attacks[i]>> THEN t
       ELSE [t EXCEPT !.collision = TRUE]

\* the turns lo..hi in order, left as soon as a collision is met
RECURSIVE TableSteps(_, _, _, _, _, _, _)
TableSteps(t, lo, hi, mask, occupancies, attacks, magic) ==
    IF t.collision THEN t
    ELSE IF lo = hi THEN TableStep(t, lo, mask, occupancies, attacks, magic)
    ELSE LET mid == (lo + hi) \div 2
         IN TableSteps(TableSteps(t, lo, mid, mask, occupancies, attacks, magic),
                       mid + 1, hi, mask, occupancies, attacks, magic)

\* one candidate of search_loop: rejected by the entropy test, or the
\* temp_table it fills and whether a collision ended the filling
try_magic(square, deltas, magic) ==
    LET mask == relevant_occupancy_mask(square, deltas)
        table_size == 2 ^ Cardinality(mask)
        occupancies == enumerate_occupancies(mask)
        attacks == attacks_for_square(square, deltas)
        empty == [table |-> [i \in 0..(table_size - 1) |-> << >>],
                  collision |-> FALSE, rejected |-> FALSE]
    IN IF entropy_rejected(mask, magic) THEN [empty EXCEPT !.rejected = TRUE]
       ELSE TableSteps(empty, 0, table_size - 1, mask, occupancies, attacks, magic)

\* temp_table[i].unwrap_or(Bitboard(0))
unwrap_or_zero(entry) == IF entry = << >> THEN {} ELSE entry[1]

(**************************************************************************)
(* moves.rs: the 16-bit move encoding                                     *)
(**************************************************************************)
Normal == 0
DoublePush == 1
KingCastle == 2
QueenCastle == 3
Capture == 4
EnPassant == 5
PromotionN == 8
PromotionB == 9
PromotionR == 10
PromotionQ == 11
PromotionCaptureN == 12
PromotionCaptureB == 13
PromotionCaptureR == 14
PromotionCaptureQ == 15

new_normal(from_sq, to_sq) == from_sq + to_sq * 64
new_special(from_sq, to_sq, movetype) == from_sq + to_sq * 64 + movetype * 4096

from_square(m) == m % 64
to_square(m) == (m \div 64) % 64
\* get_type: encoding >> 12
move_type(m) == m \div 4096
\* (encoding & 0x4000) != 0
is_capture(m) == (m \div 16384) % 2 = 1
\* (encoding & 0x8000) != 0
is_promotion(m) == (m \div 32768) % 2 = 1
\* a test of the whole tag against 0x2000
is_castling_king_only(m) == (m \div 4096) % 16 = 2

\* (encoding & 0xE000) == 0x2000
is_castling(m) == (m \div 8192) % 8 = 1
\* (encoding & 0xF000) == 0x5000
is_enpassant(m) == (m \div 4096) % 16 = 5
\* (encoding & 0xF000) == 0x1000
is_double_push(m) == (m \div 4096) % 16 = 1
\* (encoding & 0xF000) == 0
is_quiet(m) == (m \div 4096) % 16 = 0
\* (encoding & 0xC000) != 0
is_noisy(m) == (m \div 16384) % 4 # 0
\* (encoding >> 12) & 0b11: 0 Knight, 1 Bishop, 2 Rook, 3 Queen
get_promotion_piece(m) ==
    CASE (m \div 4096) % 4 = 0 -> Knight
      [] (m \div 4096) % 4 = 1 -> Bishop
      [] (m \div 4096) % 4 = 2 -> Rook
      [] (m \div 4096) % 4 = 3 -> Queen

(**************************************************************************)
(* board.rs                                                               *)
(**************************************************************************)
MAX_PLY == 128

WK == 1
WQ == 2
BK == 4
BQ == 8

\* impl Default for State
DefaultState ==
    [castling |-> {}, en_passant |-> None, halfmove |-> 0, captured |-> None,
     zobrist |-> {}]

\* impl Default for Board (the attack tables are the constant tables above)
DefaultBoard ==
    [mailbox |-> [sq \in Squares |-> None],
     pieces |-> [k \in 0..(PieceTypeNUM - 1) |-> {}],
     colors |-> [c \in {White, Black} |-> {}],
     side_to_move |-> White,
     state_stack |-> [i \in 0..(MAX_PLY - 1) |-> DefaultState],
     state_idx |-> 0]

\* Board::occupied_squares, Board::empty_squares
occupied_squares(b) == b.colors[White] \cup b.colors[Black]
empty_squares(b) == Squares \ (b.colors[White] \cup b.colors[Black])

\* Board::en_passant_square, Board::castling_rights
en_passant_square(b) == b.state_stack[b.state_idx].en_passant
castling_rights(b) == b.state_stack[b.state_idx].castling

\* the rook's (from, to) of a castling move, by the king's destination
CastleRook(to) ==
    CASE to = G1 -> <<H1, F1>>
      [] to = C1 -> <<A1, D1>>
      [] to = G8 -> <<H8, F8>>
      [] to = C8 -> <<A8, D8>>

\* a rights mask that looks at the origin square only: a rook captured on its
\* corner keeps its castling right
castling_mask_from_only(from, to) ==
    {WK, WQ, BK, BQ}
      \ ((IF from = E1 THEN {WK, WQ} ELSE {})
         \cup (IF from = E8 THEN {BK, BQ} ELSE {})
         \cup (IF from = H1 THEN {WK} ELSE {})
         \cup (IF from = A1 THEN {WQ} ELSE {})
         \cup (IF from = H8 THEN {BK} ELSE {})
         \cup (IF from = A8 THEN {BQ} ELSE {}))

\* step 6 of make_move: the rights the move leaves standing
castling_mask(from, to) ==
    {WK, WQ, BK, BQ}
      \ ((IF from = E1 THEN {WK, WQ} ELSE {})
         \cup (IF from = E8 THEN {BK, BQ} ELSE {})
         \cup (IF from = H1 \/ to = H1 THEN {WK} ELSE {})
         \cup (IF from = A1 \/ to = A1 THEN {WQ} ELSE {})
         \cup (IF from = H8 \/ to = H8 THEN {BK} ELSE {})
         \cup (IF from = A8 \/ to = A8 THEN {BQ} ELSE {}))

\* an en-passant square on the far side of the pushed pawn
new_en_passant_ahead(m, us) ==
    IF is_double_push(m)
    THEN (IF us = White THEN north(to_square(m)) ELSE south(to_square(m)))
    ELSE None

\* step 7 of make_move: the en-passant square of the new frame
new_en_passant(m, us) ==
    IF is_double_push(m)
    THEN (IF us = White THEN south(to_square(m)) ELSE north(to_square(m)))
    ELSE None

\* a halfmove clock that only pawn moves reset
new_halfmove_pawn_only(old, moved_type, m) ==
    IF moved_type = Pawn THEN 0 ELSE old + 1

\* steps 3b of make_move: the halfmove clock of the new frame
new_halfmove(old, moved_type, m) ==
    IF moved_type = Pawn \/ is_capture(m) \/ is_enpassant(m) THEN 0 ELSE old + 1

\* Board::make_move
make_move(b, m) ==
    LET from == from_square(m)
        to == to_square(m)
        us == b.side_to_move
        them == Opp(b.side_to_move)
        old_state == b.state_stack[b.state_idx]
        \* 2 - remove from origin
        moved_piece == b.mailbox[from]
        moved_type == get_type(moved_piece)
        mb1 == [b.mailbox EXCEPT ![from] = None]
        pc1 == [b.pieces EXCEPT ![moved_type] = Xor(@, bb(from))]
        co1 == [b.colors EXCEPT ![us] = Xor(@, bb(from))]
        \* 3 - capture
        ep_sq == IF us = White THEN south(to) ELSE north(to)
        captured_piece ==
            IF is_enpassant(m) THEN b.mailbox[ep_sq]
            ELSE IF is_capture(m) THEN b.mailbox[to]
            ELSE None
        mb2 == IF is_enpassant(m) THEN [mb1 EXCEPT ![ep_sq] = None] ELSE mb1
        pc2 == IF is_enpassant(m) THEN [pc1 EXCEPT ![Pawn] = Xor(@, bb(ep_sq))]
               ELSE IF is_capture(m)
                    THEN [pc1 EXCEPT ![get_type(captured_piece)] = Xor(@, bb(to))]
                    ELSE pc1
        co2 == IF is_enpassant(m) THEN [co1 EXCEPT ![them] = Xor(@, bb(ep_sq))]
               ELSE IF is_capture(m) THEN [co1 EXCEPT ![them] = Xor(@, bb(to))]
               ELSE co1
        \* 4 - destination
        placed == IF is_promotion(m) THEN PieceNew(us, get_promotion_piece(m))
                  ELSE moved_piece
        placed_type == IF is_promotion(m) THEN get_promotion_piece(m) ELSE moved_type
        mb3 == [mb2 EXCEPT ![to] = placed]
        pc3 == [pc2 EXCEPT ![placed_type] = Xor(@, bb(to))]
        co3 == [co2 EXCEPT ![us] = Xor(@, bb(to))]
        \* 5 - castling
        rook_from == CastleRook(to)[1]
        rook_to == CastleRook(to)[2]
        mb4 == IF is_castling(m)
               THEN [mb3 EXCEPT ![rook_from] = None, ![rook_to] = mb3[rook_from]]
               ELSE mb3
        pc4 == IF is_castling(m)
               THEN [pc3 EXCEPT ![Rook] = Xor(@, bb(rook_from) \cup bb(rook_to))]
               ELSE pc3
        co4 == IF is_castling(m)
               THEN [co3 EXCEPT ![us] = Xor(@, bb(rook_from) \cup bb(rook_to))]
               ELSE co3
        \* 6, 7, 9 - the new frame: struct assign, then the four fields
        new_state ==
            [old_state EXCEPT
               !.en_passant = new_en_passant(m, us),
               !.captured = captured_piece,
               !.castling = old_state.castling \cap castling_mask(from, to),
               !.halfmove = new_halfmove(old_state.halfmove, moved_type, m)]
    IN [mailbox |-> mb4,
        pieces |-> pc4,
        colors |-> co4,
        side_to_move |-> Opp(b.side_to_move),
        state_stack |-> [b.state_stack EXCEPT ![b.state_idx + 1] = new_state],
        state_idx |-> b.state_idx + 1]

\* step 5 of unmake_move: the piece put back on the origin square
restored_piece(m, side_to_move, moved_piece) ==
    IF is_promotion(m) THEN PieceNew(Opp(side_to_move), Pawn) ELSE moved_piece

\* Board::unmake_move
unmake_move(b, m) ==
    LET from == from_square(m)
        to == to_square(m)
        moved_piece == b.mailbox[to]
        \* 1 - flip side
        stm == Opp(b.side_to_move)
        us == stm
        them == Opp(stm)
        \* 2 - pop state
        state == b.state_stack[b.state_idx]
        \* 3 - undo destination
        pc1 == [b.pieces EXCEPT ![get_type(moved_piece)] = Xor(@, bb(to))]
        co1 == [b.colors EXCEPT ![us] = Xor(@, bb(to))]
        mb1 == [b.mailbox EXCEPT ![to] = None]
        \* 4 - restore the captured piece
        captured == state.captured
        captured_sq == IF is_enpassant(m)
                       THEN (IF us = White THEN south(to) ELSE north(to))
                       ELSE to
        mb2 == IF captured # None THEN [mb1 EXCEPT ![captured_sq] = captured] ELSE mb1
        pc2 == IF captured # None
               THEN [pc1 EXCEPT ![get_type(captured)] = Xor(@, bb(captured_sq))]
               ELSE pc1
        co2 == IF captured # None
               THEN [co1 EXCEPT ![them] = Xor(@, bb(captured_sq))]
               ELSE co1
        \* 5 - restore origin
        back == restored_piece(m, stm, moved_piece)
        mb3 == [mb2 EXCEPT ![from] = back]
        pc3 == [pc2 EXCEPT ![get_type(back)] = Xor(@, bb(from))]
        co3 == [co2 EXCEPT ![us] = Xor(@, bb(from))]
        \* 6 - undo castling
        rook_from == CastleRook(to)[1]
        rook_to == CastleRook(to)[2]
        mb4 == IF is_castling(m)
               THEN [mb3 EXCEPT ![rook_to] = None, ![rook_from] = mb3[rook_to]]
               ELSE mb3
        pc4 == IF is_castling(m)
               THEN [pc3 EXCEPT ![Rook] = Xor(@, bb(rook_from) \cup bb(rook_to))]
               ELSE pc3
        co4 == IF is_castling(m)
               THEN [co3 EXCEPT ![us] = Xor(@, bb(rook_from) \cup bb(rook_to))]
               ELSE co3
    IN [mailbox |-> mb4,
        pieces |-> pc4,
        colors |-> co4,
        side_to_move |-> stm,
        state_stack |-> b.state_stack,
        state_idx |-> b.state_idx - 1]

\* Board::is_square_attacked
\* the pawn test read from the attacker's own table instead of the
\* opposite one
is_square_attacked_own_pawn_table(b, sq, by) ==
    LET occupancy == occupied_squares(b)
        their_pieces == b.colors[by]
    IN \/ pawn_capture[by][sq] \cap (b.pieces[Pawn] \cap their_pieces) # {}
       \/ knight[sq] \cap (b.pieces[Knight] \cap their_pieces) # {}
       \/ king[sq] \cap (b.pieces[King] \cap their_pieces) # {}
       \/ bishop_lookup(sq, occupancy \cap bishop_masks[sq])
            \cap ((b.pieces[Bishop] \cup b.pieces[Queen]) \cap their_pieces) # {}
       \/ rook_lookup(sq, occupancy \cap rook_masks[sq])
            \cap ((b.pieces[Rook] \cup b.pieces[Queen]) \cap their_pieces) # {}

is_square_attacked(b, sq, by) ==
    LET occupancy == occupied_squares(b)
        their_pieces == b.colors[by]
    IN \/ pawn_capture[Opp(by)][sq] \cap (b.pieces[Pawn] \cap their_pieces) # {}
       \/ knight[sq] \cap (b.pieces[Knight] \cap their_pieces) # {}
       \/ king[sq] \cap (b.pieces[King] \cap their_pieces) # {}
       \/ bishop_lookup(sq, occupancy \cap bishop_masks[sq])
            \cap ((b.pieces[Bishop] \cup b.pieces[Queen]) \cap their_pieces) # {}
       \/ rook_lookup(sq, occupancy \cap rook_masks[sq])
            \cap ((b.pieces[Rook] \cup b.pieces[Queen]) \cap their_pieces) # {}

\* a legality test that never rejects
king_in_check_never(b, color) == FALSE

\* a legality test that asks whether the king's own side attacks it
king_in_check_by_own(b, color) ==
    is_square_attacked(b, lsb(b.pieces[King] \cap b.colors[color]), color)

\* Board::king_in_check
king_in_check(b, color) ==
    is_square_attacked(b, lsb(b.pieces[King] \cap b.colors[color]), Opp(color))

(**************************************************************************)
(* movegen.rs                                                             *)
(**************************************************************************)
\* Attacker::get_attacks of Caval, Re, Alfe, Tor and Argina
get_attacks(ptype, from, b) ==
    CASE ptype = Knight -> knight[from]
      [] ptype = King -> king[from]
      [] ptype = Rook -> rook_lookup(from, occupied_squares(b) \cap rook_masks[from])
      [] ptype = Bishop -> bishop_lookup(from, occupied_squares(b) \cap bishop_masks[from])
      [] ptype = Queen ->
            rook_lookup(from, occupied_squares(b) \cap rook_masks[from])
            \cup bishop_lookup(from, occupied_squares(b) \cap bishop_masks[from])

\* generate_moves::<P, WHITE, CAPTURE>
generate_moves(b, ptype, white, capture) ==
    LET us == IF white THEN b.colors[White] ELSE b.colors[Black]
        them == IF white THEN b.colors[Black] ELSE b.colors[White]
        attackers == PopOrder(b.pieces[ptype] \cap us)
        target_mask == IF capture THEN them ELSE empty_squares(b)
        MovesFrom(from) ==
            LET attacks == PopOrder(get_attacks(ptype, from, b) \cap target_mask)
            IN [j \in 1..Len(attacks) |->
                  IF capture THEN new_special(from, attacks[j], Capture)
                  ELSE new_normal(from, attacks[j])]
    IN Flatten([i \in 1..Len(attackers) |-> MovesFrom(attackers[i])])

\* pawn captures that look at the opponent's pieces only
generate_pawn_captures_no_ep(b, white) ==
    LET our_color == IF white THEN White ELSE Black
        pawns == PopOrder(b.pieces[Pawn] \cap b.colors[our_color])
        them == IF white THEN b.colors[Black] ELSE b.colors[White]
        promotion_rank == IF white THEN rank_8 ELSE rank_1
        MovesTo(from, to) ==
            IF promotion_rank \cap bb(to) # {}
            THEN <<new_special(from, to, PromotionCaptureQ),
                   new_special(from, to, PromotionCaptureR),
                   new_special(from, to, PromotionCaptureB),
                   new_special(from, to, PromotionCaptureN)>>
            ELSE <<new_special(from, to, Capture)>>
        MovesFrom(from) ==
            LET attacks == PopOrder(pawn_capture[our_color][from] \cap them)
            IN Flatten([j \in 1..Len(attacks) |-> MovesTo(from, attacks[j])])
    IN Flatten([i \in 1..Len(pawns) |-> MovesFrom(pawns[i])])

\* generate_pawn_captures::<WHITE>
generate_pawn_captures(b, white) ==
    LET our_color == IF white THEN White ELSE Black
        pawns == PopOrder(b.pieces[Pawn] \cap b.colors[our_color])
        them == IF white THEN b.colors[Black] ELSE b.colors[White]
        promotion_rank == IF white THEN rank_8 ELSE rank_1
        ep_square == IF en_passant_square(b) # None THEN bb(en_passant_square(b)) ELSE {}
        MovesTo(from, to) ==
            IF bb(to) \cap ep_square # {}
            THEN <<new_special(from, to, EnPassant)>>
            ELSE IF promotion_rank \cap bb(to) # {}
                 THEN <<new_special(from, to, PromotionCaptureQ),
                        new_special(from, to, PromotionCaptureR),
                        new_special(from, to, PromotionCaptureB),
                        new_special(from, to, PromotionCaptureN)>>
                 ELSE <<new_special(from, to, Capture)>>
        MovesFrom(from) ==
            LET attacks == PopOrder(pawn_capture[our_color][from] \cap (them \cup ep_square))
            IN Flatten([j \in 1..Len(attacks) |-> MovesTo(from, attacks[j])])
    IN Flatten([i \in 1..Len(pawns) |-> MovesFrom(pawns[i])])

\* pawn quiets without the double push
generate_pawn_quiets_single(b, white) ==
    LET our_color == IF white THEN White ELSE Black
        pawns == PopOrder(b.pieces[Pawn] \cap b.colors[our_color])
        promotion_rank == IF white THEN rank_8 ELSE rank_1
        empty_bb == empty_squares(b)
        MovesTo(from, to) ==
            IF promotion_rank \cap bb(to) # {}
            THEN <<new_special(from, to, PromotionQ),
                   new_special(from, to, PromotionR),
                   new_special(from, to, PromotionB),
                   new_special(from, to, PromotionN)>>
            ELSE <<new_normal(from, to)>>
        MovesFrom(from) ==
            LET attacks == PopOrder(pawn_push[our_color][from] \cap empty_bb)
            IN Flatten([j \in 1..Len(attacks) |-> MovesTo(from, attacks[j])])
    IN Flatten([i \in 1..Len(pawns) |-> MovesFrom(pawns[i])])

\* pawn quiets whose double push does not wait for the single push
generate_pawn_quiets_jump(b, white) ==
    LET our_color == IF white THEN White ELSE Black
        pawns == PopOrder(b.pieces[Pawn] \cap b.colors[our_color])
        promotion_rank == IF white THEN rank_8 ELSE rank_1
        empty_bb == empty_squares(b)
        MovesTo(from, to) ==
            IF promotion_rank \cap bb(to) # {}
            THEN <<new_special(from, to, PromotionQ),
                   new_special(from, to, PromotionR),
                   new_special(from, to, PromotionB),
                   new_special(from, to, PromotionN)>>
            ELSE <<new_normal(from, to)>>
        MovesFrom(from) ==
            LET attacks == PopOrder(pawn_push[our_color][from] \cap empty_bb)
                double_pushes == pawn_double_push[our_color][from] \cap empty_bb
            IN Flatten([j \in 1..Len(attacks) |-> MovesTo(from, attacks[j])])
               \o (IF double_pushes # {}
                   THEN <<new_special(from, lsb(double_pushes), DoublePush)>>
                   ELSE << >>)
    IN Flatten([i \in 1..Len(pawns) |-> MovesFrom(pawns[i])])

\* generate_pawn_quiets::<WHITE>
generate_pawn_quiets(b, white) ==
    LET our_color == IF white THEN White ELSE Black
        pawns == PopOrder(b.pieces[Pawn] \cap b.colors[our_color])
        promotion_rank == IF white THEN rank_8 ELSE rank_1
        empty_bb == empty_squares(b)
        MovesTo(from, to) ==
            IF promotion_rank \cap bb(to) # {}
            THEN <<new_special(from, to, PromotionQ),
                   new_special(from, to, PromotionR),
                   new_special(from, to, PromotionB),
                   new_special(from, to, PromotionN)>>
            ELSE LET double_pushes == pawn_double_push[our_color][from] \cap empty_bb
                 IN <<new_normal(from, to)>>
                    \o (IF double_pushes # {}
                        THEN <<new_special(from, lsb(double_pushes), DoublePush)>>
                        ELSE << >>)
        MovesFrom(from) ==
            LET attacks == PopOrder(pawn_push[our_color][from] \cap empty_bb)
            IN Flatten([j \in 1..Len(attacks) |-> MovesTo(from, attacks[j])])
    IN Flatten([i \in 1..Len(pawns) |-> MovesFrom(pawns[i])])

\* castling that also wants the B-file square of the queen side unattacked
generate_castling_b_file(b, white) ==
    LET rights == castling_rights(b)
        occupancy == occupied_squares(b)
        Side(bit, between, safe, by, m) ==
            IF /\ bit \in rights
               /\ occupancy \cap between = {}
               /\ \A sq \in safe : ~is_square_attacked(b, sq, by)
            THEN <<m>> ELSE << >>
    IN IF white
       THEN Side(WK, {F1, G1}, {E1, F1, G1}, Black, new_special(E1, G1, KingCastle))
            \o Side(WQ, {B1, C1, D1}, {B1, C1, D1, E1}, Black,
                    new_special(E1, C1, QueenCastle))
       ELSE Side(BK, {F8, G8}, {E8, F8, G8}, White, new_special(E8, G8, KingCastle))
            \o Side(BQ, {B8, C8, D8}, {B8, C8, D8, E8}, White,
                    new_special(E8, C8, QueenCastle))

\* castling of the king side only
generate_castling_king_side(b, white) ==
    LET rights == castling_rights(b)
        occupancy == occupied_squares(b)
    IN IF white
       THEN (IF /\ WK \in rights
                /\ occupancy \cap (bb(F1) \cup bb(G1)) = {}
                /\ ~is_square_attacked(b, E1, Black)
                /\ ~is_square_attacked(b, F1, Black)
                /\ ~is_square_attacked(b, G1, Black)
             THEN <<new_special(E1, G1, KingCastle)>> ELSE << >>)
       ELSE (IF /\ BK \in rights
                /\ occupancy \cap (bb(F8) \cup bb(G8)) = {}
                /\ ~is_square_attacked(b, E8, White)
                /\ ~is_square_attacked(b, F8, White)
                /\ ~is_square_attacked(b, G8, White)
             THEN <<new_special(E8, G8, KingCastle)>> ELSE << >>)

\* generate_castling::<WHITE>
generate_castling(b, white) ==
    LET rights == castling_rights(b)
        occupancy == occupied_squares(b)
    IN IF white
       THEN (IF /\ WK \in rights
                /\ occupancy \cap (bb(F1) \cup bb(G1)) = {}
                /\ ~is_square_attacked(b, E1, Black)
                /\ ~is_square_attacked(b, F1, Black)
                /\ ~is_square_attacked(b, G1, Black)
             THEN <<new_special(E1, G1, KingCastle)>> ELSE << >>)
            \o
            (IF /\ WQ \in rights
                /\ occupancy \cap (bb(B1) \cup bb(C1) \cup bb(D1)) = {}
                /\ ~is_square_attacked(b, C1, Black)
                /\ ~is_square_attacked(b, D1, Black)
                /\ ~is_square_attacked(b, E1, Black)
             THEN <<new_special(E1, C1, QueenCastle)>> ELSE << >>)
       ELSE (IF /\ BK \in rights
                /\ occupancy \cap (bb(F8) \cup bb(G8)) = {}
                /\ ~is_square_attacked(b, E8, White)
                /\ ~is_square_attacked(b, F8, White)
                /\ ~is_square_attacked(b, G8, White)
             THEN <<new_special(E8, G8, KingCastle)>> ELSE << >>)
            \o
            (IF /\ BQ \in rights
                /\ occupancy \cap (bb(B8) \cup bb(C8) \cup bb(D8)) = {}
                /\ ~is_square_attacked(b, C8, White)
                /\ ~is_square_attacked(b, D8, White)
                /\ ~is_square_attacked(b, E8, White)
             THEN <<new_special(E8, C8, QueenCastle)>> ELSE << >>)

\* generate_white_moves / generate_black_moves
generate_side_moves(b, white) ==
    generate_moves(b, Knight, white, FALSE)
    \o generate_moves(b, Knight, white, TRUE)
    \o generate_moves(b, King, white, FALSE)
    \o generate_moves(b, King, white, TRUE)
    \o generate_moves(b, Bishop, white, FALSE)
    \o generate_moves(b, Bishop, white, TRUE)
    \o generate_moves(b, Rook, white, FALSE)
    \o generate_moves(b, Rook, white, TRUE)
    \o generate_moves(b, Queen, white, FALSE)
    \o generate_moves(b, Queen, white, TRUE)
    \o generate_pawn_quiets(b, white)
    \o generate_pawn_captures(b, white)
    \o generate_castling(b, white)

\* generate_all_moves
generate_all_moves(b) ==
    IF b.side_to_move = White
    THEN generate_side_moves(b, TRUE)
    ELSE generate_side_moves(b, FALSE)

(**************************************************************************)
(* board.rs: FEN import.  A FEN is given as the sequence of its           *)
(* whitespace-separated fields (what split_whitespace yields), each field *)
(* the sequence of its characters.                                        *)
(**************************************************************************)
Digits == {"0", "1", "2", "3", "4", "5", "6", "7", "8", "9"}

\* char::to_digit(10)
to_digit(ch) ==
    CASE ch = "0" -> 0 [] ch = "1" -> 1 [] ch = "2" -> 2 [] ch = "3" -> 3
      [] ch = "4" -> 4 [] ch = "5" -> 5 [] ch = "6" -> 6 [] ch = "7" -> 7
      [] ch = "8" -> 8 [] ch = "9" -> 9

PieceChars == {"P", "N", "B", "R", "Q", "K", "p", "n", "b", "r", "q", "k"}

\* Piece::from_char (any other character is unreachable!())
from_char(ch) ==
    CASE ch = "P" -> 0 [] ch = "N" -> 1 [] ch = "B" -> 2
      [] ch = "R" -> 3 [] ch = "Q" -> 4 [] ch = "K" -> 5
      [] ch = "p" -> 6 [] ch = "n" -> 7 [] ch = "b" -> 8
      [] ch = "r" -> 9 [] ch = "q" -> 10 [] ch = "k" -> 11

\* str::split('/')
RECURSIVE SplitSlash(_)
SplitSlash(cs) ==
    IF \E k \in 1..Len(cs) : cs[k] = "/"
    THEN LET k == CHOOSE k \in 1..Len(cs) : cs[k] = "/" /\ \A j \in 1..(k - 1) : cs[j] # "/"
         IN <<SubSeq(cs, 1, k - 1)>> \o SplitSlash(SubSeq(cs, k + 1, Len(cs)))
    ELSE <<cs>>

\* rank_num * 8 + file of from_fen, rank_num = 7 - rank_idx in usize: the
\* subtraction overflows for rank_idx > 7 (a panic with debug assertions;
\* without, it wraps, and so does the sum).  None stands for an index >= 2^32.
FenSquare(rank_idx, file) ==
    IF rank_idx <= 7 THEN (7 - rank_idx) * 8 + file
    ELSE IF file >= 8 * (rank_idx - 7) THEN file - 8 * (rank_idx - 7)
    ELSE None

\* the characters of one rank: st is [mailbox, pieces, colors, file, panic]
RECURSIVE ParseRankChars(_, _, _, _)
ParseRankChars(st, cs, rank_idx, debug) ==
    IF cs = << >> \/ st.panic THEN st
    ELSE LET ch == Head(cs)
             sq == FenSquare(rank_idx, st.file)
         IN IF ch \in Digits
            THEN ParseRankChars([st EXCEPT !.file = @ + to_digit(ch)], Tail(cs),
                                rank_idx, debug)
            ELSE IF ch \notin PieceChars \/ sq \notin Squares
                 THEN [st EXCEPT !.panic = TRUE]
                 ELSE LET piece == from_char(ch)
                      IN ParseRankChars(
                           [st EXCEPT !.mailbox[sq] = piece,
                                      !.pieces[get_type(piece)] = @ \cup bb(sq),
                                      !.colors[get_color(piece)] = @ \cup bb(sq),
                                      !.file = @ + 1],
                           Tail(cs), rank_idx, debug)

\* the loop over the ranks: stops at the first rank whose length is not 8
RECURSIVE ParseRanks(_, _, _, _)
ParseRanks(st, ranks, rank_idx, debug) ==
    IF ranks = << >> \/ st.panic \/ st.bad_rank THEN st
    ELSE IF debug /\ rank_idx > 7 THEN [st EXCEPT !.panic = TRUE]
    ELSE LET after == ParseRankChars([st EXCEPT !.file = 0], Head(ranks), rank_idx, debug)
         IN IF after.panic THEN after
            ELSE IF after.file # 8 THEN [after EXCEPT !.bad_rank = TRUE]
            ELSE ParseRanks(after, Tail(ranks), rank_idx + 1, debug)

\* the castling field: whether no character is unknown, and the rights
CastlingKnown(cs) == \A k \in 1..Len(cs) : cs[k] \in {"K", "Q", "k", "q", "-"}
RECURSIVE ParseCastling(_, _)
ParseCastling(cs, acc) ==
    IF cs = << >> THEN acc
    ELSE CASE Head(cs) = "K" -> ParseCastling(Tail(cs), acc \cup {WK})
           [] Head(cs) = "Q" -> ParseCastling(Tail(cs), acc \cup {WQ})
           [] Head(cs) = "k" -> ParseCastling(Tail(cs), acc \cup {BK})
           [] Head(cs) = "q" -> ParseCastling(Tail(cs), acc \cup {BQ})
           [] Head(cs) = "-" -> ParseCastling(Tail(cs), acc)
           [] OTHER -> acc

\* bytes[0].wrapping_sub(b'a') and bytes[1].wrapping_sub(b'1'): 0..7 for
\* a..h and 1..8, above 7 for every other byte
FileByte(ch) ==
    CASE ch = "a" -> 0 [] ch = "b" -> 1 [] ch = "c" -> 2 [] ch = "d" -> 3
      [] ch = "e" -> 4 [] ch = "f" -> 5 [] ch = "g" -> 6 [] ch = "h" -> 7
      [] OTHER -> 8
RankByte(ch) ==
    CASE ch = "1" -> 0 [] ch = "2" -> 1 [] ch = "3" -> 2 [] ch = "4" -> 3
      [] ch = "5" -> 4 [] ch = "6" -> 5 [] ch = "7" -> 6 [] ch = "8" -> 7
      [] OTHER -> 8

\* str::parse::<usize>().unwrap_or_default() of the halfmove field
RECURSIVE DigitsValue(_, _)
DigitsValue(cs, acc) ==
    IF cs = << >> THEN acc ELSE DigitsValue(Tail(cs), acc * 10 + to_digit(Head(cs)))
ParseHalfmove(cs) ==
    IF cs # << >> /\ \A k \in 1..Len(cs) : cs[k] \in Digits
    THEN DigitsValue(cs, 0) ELSE 0

\* Board::from_fen: the board it leaves and what it returns ("Ok", an error
\* text, or "panic")
from_fen(b, fen, debug) ==
    IF Len(fen) < 1 THEN [board |-> b, result |-> "FEN missing board part"]
    ELSE IF Len(fen) < 2 THEN [board |-> b, result |-> "FEN missing side to move"]
    ELSE
    LET board_part == fen[1]
        side_part == fen[2]
        castling_part == IF Len(fen) >= 3 THEN fen[3] ELSE <<"-">>
        en_passant_part == IF Len(fen) >= 4 THEN fen[4] ELSE <<"-">>
        halfmove_part == IF Len(fen) >= 5 THEN fen[5] ELSE <<"0">>
        \* reset
        st0 == [mailbox |-> [sq \in Squares |-> None],
                pieces |-> [k \in 0..(PieceTypeNUM - 1) |-> {}],
                colors |-> [c \in {White, Black} |-> {}],
                file |-> 0, panic |-> FALSE, bad_rank |-> FALSE]
        st == ParseRanks(st0, SplitSlash(board_part), 0, debug)
        parsed == [b EXCEPT !.mailbox = st.mailbox, !.pieces = st.pieces,
                            !.colors = st.colors, !.state_idx = 0]
        castling == ParseCastling(castling_part, {})
        ep_file == FileByte(en_passant_part[1])
        ep_rank == RankByte(en_passant_part[2])
    IN IF st.panic THEN [board |-> parsed, result |-> "panic"]
       ELSE IF st.bad_rank THEN [board |-> parsed, result |-> "Invalid FEN rank length"]
       ELSE IF side_part # <<"w">> /\ side_part # <<"b">>
            THEN [board |-> parsed, result |-> "Invalid side to move"]
       ELSE
       LET sided == [parsed EXCEPT !.side_to_move =
                        IF side_part = <<"w">> THEN White ELSE Black]
       IN IF ~CastlingKnown(castling_part) THEN [board |-> sided, result |-> "Invalid castling"]
          ELSE IF en_passant_part # <<"-">> /\ Len(en_passant_part) < 2
               THEN [board |-> sided, result |-> "panic"]
          ELSE IF en_passant_part # <<"-">> /\ (ep_file > 7 \/ ep_rank > 7)
               THEN [board |-> sided, result |-> "Invalid en passant square"]
          ELSE [board |-> [sided EXCEPT !.state_stack[0] =
                              [castling |-> castling,
                               en_passant |-> IF en_passant_part = <<"-">> THEN None
                                              ELSE ep_rank * 8 + ep_file,
                               halfmove |-> ParseHalfmove(halfmove_part),
                               captured |-> None,
                               zobrist |-> {}]],
                result |-> "Ok"]

\* the start position of set_startpos
StartFen ==
    << <<"r", "n", "b", "q", "k", "b", "n", "r", "/", "p", "p", "p", "p", "p", "p", "p", "p", "/", "8", "/", "8", "/", "8", "/", "8", "/", "P", "P", "P", "P", "P", "P", "P", "P", "/", "R", "N", "B", "Q", "K", "B", "N", "R">>,
       <<"w">>,
       <<"K", "Q", "k", "q">>,
       <<"-">>,
       <<"0">>,
       <<"1">> >>

\* the position of kiwipete()
KiwipeteFen ==
    << <<"r", "3", "k", "2", "r", "/", "p", "1", "p", "p", "q", "p", "b", "1", "/", "b", "n", "2", "p", "n", "p", "1", "/", "3", "P", "N", "3", "/", "1", "p", "2", "P", "3", "/", "2", "N", "2", "Q", "1", "p", "/", "P", "P", "P", "B", "B", "P", "P", "P", "/", "R", "3", "K", "2", "R">>,
       <<"w">>,
       <<"K", "Q", "k", "q">>,
       <<"-">> >>

\* kings and rooks on their home squares, all four rights
CastleFen ==
    << <<"r", "3", "k", "2", "r", "/", "8", "/", "8", "/", "8", "/", "8", "/", "8", "/", "8", "/", "R", "3", "K", "2", "R">>,
       <<"w">>,
       <<"K", "Q", "k", "q">>,
       <<"-">>,
       <<"0">>,
       <<"1">> >>

\* a pawn of each side one step from promotion, next to a knight it can take
PromoFen ==
    << <<"1", "n", "2", "k", "3", "/", "P", "7", "/", "8", "/", "8", "/", "8", "/", "8", "/", "p", "7", "/", "1", "N", "2", "K", "3">>,
       <<"w">>,
       <<"-">>,
       <<"-">>,
       <<"0">>,
       <<"1">> >>

\* a double push of either side can be answered by an en-passant capture, and
\* the white king can step into the knight's attack
EnPassantFen ==
    << <<"4", "k", "3", "/", "8", "/", "8", "/", "p", "P", "6", "/", "1", "p", "6", "/", "7", "n", "/", "P", "7", "/", "4", "K", "3">>,
       <<"w">>,
       <<"-">>,
       <<"a", "6">>,
       <<"0">>,
       <<"1">> >>

\* one castling wing a side: White king side, Black queen side
RookPairFen ==
    << <<"r", "3", "k", "3", "/", "8", "/", "8", "/", "8", "/", "8", "/", "8", "/", "8", "/", "4", "K", "2", "R">>,
       <<"w">>,
       <<"K", "q">>,
       <<"-">>,
       <<"0">>,
       <<"1">> >>

\* White to move while the black king stands attacked
KingAttackedFen ==
    << <<"4", "k", "3", "/", "8", "/", "8", "/", "8", "/", "8", "/", "8", "/", "8", "/", "4", "R", "K", "2">>,
       <<"w">>,
       <<"-">>,
       <<"-">>,
       <<"0">>,
       <<"1">> >>


(**************************************************************************)
(* perft.rs: the driver, one action per step of perft                     *)
(**************************************************************************)
\* deepest perft call on the small positions
MaxDepth == 2

\* the imported positions and the deepest perft(board, depth) run on each
Scenarios ==
    << [fen |-> StartFen, depth |-> 2],
       [fen |-> KiwipeteFen, depth |-> 1],
       [fen |-> CastleFen, depth |-> MaxDepth],
       [fen |-> PromoFen, depth |-> MaxDepth],
       [fen |-> EnPassantFen, depth |-> MaxDepth],
       [fen |-> KingAttackedFen, depth |-> MaxDepth],
       [fen |-> StartFen, depth |-> 3],
       [fen |-> RookPairFen, depth |-> MaxDepth + 1] >>

\* the runs of the driver, and the deeper runs that follow the castling
\* rights through king and rook moves
PerftRuns == 1..6
RightsRuns == {3, 7, 8}

VARIABLES
    mailbox,        \* Board::mailbox
    pieces,         \* Board::pieces
    colors,         \* Board::colors
    side_to_move,   \* Board::side_to_move
    state_stack,    \* Board::state_stack
    state_idx,      \* Board::state_idx
    pc,             \* where the caller / the innermost perft call stands
    scenario,       \* which position was imported (0: none yet)
    root_depth,     \* the depth of the outermost perft call (None: not called)
    frames,         \* the activations of perft, innermost last
    result,         \* what the outermost perft call returned (None: not yet)
    snaps,          \* history: per move made and not yet unmade, the move and
                    \* the position it was made on
    last,           \* history: the last make_move / unmake_move
    tables_built,   \* how many times AttackTables::new has run
    board_tables,   \* per Board created, which construction its attack_tables is
    ATTACK_TABLES,  \* the OnceLock: None, or the construction it holds
    fen_result,     \* what the last direct call of from_fen returned
    probe,          \* the last call of a pure function: its arguments and value
    magics,         \* MagicTables::rook_magics / bishop_magics of the kind searched
    offsets,        \* MagicTables::rook_offsets / bishop_offsets
    flat_table,     \* MagicTables::rook_attacks / bishop_attacks
    search          \* search_loop: the kind, its sq and offset, the attempts made

\* what the perft driver leaves alone
unit_vars == <<tables_built, board_tables, ATTACK_TABLES, fen_result, probe,
               magics, offsets, flat_table, search>>

vars == <<mailbox, pieces, colors, side_to_move, state_stack, state_idx,
          pc, scenario, root_depth, frames, result, snaps, last,
          tables_built, board_tables, ATTACK_TABLES, fen_result, probe,
          magics, offsets, flat_table, search>>

Board ==
    [mailbox |-> mailbox, pieces |-> pieces, colors |-> colors,
     side_to_move |-> side_to_move, state_stack |-> state_stack,
     state_idx |-> state_idx]

SetBoard(b) ==
    /\ mailbox' = b.mailbox
    /\ pieces' = b.pieces
    /\ colors' = b.colors
    /\ side_to_move' = b.side_to_move
    /\ state_stack' = b.state_stack
    /\ state_idx' = b.state_idx

\* what a make/unmake pair has to restore: every field of the board, of the
\* state stack the frame state_idx points to
PositionOf(b) ==
    [mailbox |-> b.mailbox, pieces |-> b.pieces, colors |-> b.colors,
     side_to_move |-> b.side_to_move, state_idx |-> b.state_idx,
     frame |-> b.state_stack[b.state_idx]]

NoOp == [op |-> "none", m |-> None, made |-> None, pre |-> None]

NoProbe == [op |-> "none"]
NoSearch == [kind |-> None, sq |-> 0, offset |-> 0, attempt |-> 0]

\* Board::new(): Board::default runs AttackTables::new() for its own field
Init ==
    /\ mailbox = DefaultBoard.mailbox
    /\ pieces = DefaultBoard.pieces
    /\ colors = DefaultBoard.colors
    /\ side_to_move = DefaultBoard.side_to_move
    /\ state_stack = DefaultBoard.state_stack
    /\ state_idx = DefaultBoard.state_idx
    /\ pc = "new"
    /\ scenario = 0
    /\ root_depth = None
    /\ frames = << >>
    /\ result = None
    /\ snaps = << >>
    /\ last = NoOp
    /\ tables_built = 1
    /\ board_tables = <<1>>
    /\ ATTACK_TABLES = None
    /\ fen_result = None
    /\ probe = NoProbe
    /\ magics = [sq \in Squares |-> ZeroU64]
    /\ offsets = [sq \in Squares |-> 0]
    /\ flat_table = << >>
    /\ search = NoSearch

\* board.from_fen(..).unwrap() of set_startpos / kiwipete
FromFen(s) ==
    /\ pc = "new"
    /\ \E debug \in BOOLEAN :
         LET r == from_fen(Board, Scenarios[s].fen, debug)
         IN /\ SetBoard(r.board)
            /\ pc' = IF r.result = "Ok" THEN "ready" ELSE "panic"
    /\ scenario' = s
    /\ UNCHANGED <<root_depth, frames, result, snaps, last>>
    /\ UNCHANGED unit_vars

\* entry of perft: depth 0 generates nothing and returns 1
NewFrame(b, depth) ==
    [depth |-> depth,
     list |-> IF depth = 0 THEN << >> ELSE generate_all_moves(b),
     i |-> 1,
     nodes |-> 0]

Top == frames[Len(frames)]
CurrentMove == Top.list[Top.i]

\* perft(&mut board, depth) called on the imported position
PerftCall(d) ==
    /\ pc = "ready"
    /\ d <= Scenarios[scenario].depth
    /\ root_depth' = d
    /\ frames' = <<NewFrame(Board, d)>>
    /\ pc' = "loop"
    /\ last' = NoOp
    /\ UNCHANGED <<mailbox, pieces, colors, side_to_move, state_stack, state_idx,
                   scenario, result, snaps>>
    /\ UNCHANGED unit_vars

\* board.make_move(*m) of the next move of the list
Make ==
    /\ pc = "loop"
    /\ Top.depth > 0
    /\ Top.i <= Len(Top.list)
    /\ SetBoard(make_move(Board, CurrentMove))
    /\ pc' = "made"
    /\ snaps' = Append(snaps, [m |-> CurrentMove, pos |-> PositionOf(Board)])
    /\ last' = [op |-> "make", m |-> CurrentMove, made |-> CurrentMove,
                pre |-> PositionOf(Board)]
    /\ UNCHANGED <<scenario, root_depth, frames, result>>
    /\ UNCHANGED unit_vars

\* !board.king_in_check(!board.side_to_move()): nodes += perft(board, depth - 1)
Recurse ==
    /\ pc = "made"
    /\ ~king_in_check(Board, Opp(side_to_move))
    /\ frames' = Append(frames, NewFrame(Board, Top.depth - 1))
    /\ pc' = "loop"
    /\ last' = NoOp
    /\ UNCHANGED <<mailbox, pieces, colors, side_to_move, state_stack, state_idx,
                   scenario, root_depth, result, snaps>>
    /\ UNCHANGED unit_vars

\* the mover's king is attacked: the move is skipped
Discard ==
    /\ pc = "made"
    /\ king_in_check(Board, Opp(side_to_move))
    /\ pc' = "unmake"
    /\ last' = NoOp
    /\ UNCHANGED <<mailbox, pieces, colors, side_to_move, state_stack, state_idx,
                   scenario, root_depth, frames, result, snaps>>
    /\ UNCHANGED unit_vars

\* board.unmake_move(*m), and on to the next move of the list
Unmake ==
    /\ pc = "unmake"
    /\ SetBoard(unmake_move(Board, CurrentMove))
    /\ frames' = [frames EXCEPT ![Len(frames)].i = @ + 1]
    /\ pc' = "loop"
    /\ snaps' = SubSeq(snaps, 1, Len(snaps) - 1)
    /\ last' = [op |-> "unmake", m |-> CurrentMove, made |-> snaps[Len(snaps)].m,
                pre |-> snaps[Len(snaps)].pos]
    /\ UNCHANGED <<scenario, root_depth, result>>
    /\ UNCHANGED unit_vars

\* return 1 (depth 0) or return nodes (the list is exhausted)
Return ==
    /\ pc = "loop"
    /\ ~(Top.depth > 0 /\ Top.i <= Len(Top.list))
    /\ LET value == IF Top.depth = 0 THEN 1 ELSE Top.nodes
       IN IF Len(frames) = 1
          THEN /\ result' = value
               /\ frames' = << >>
               /\ pc' = "done"
          ELSE /\ frames' = [SubSeq(frames, 1, Len(frames) - 1)
                               EXCEPT ![Len(frames) - 1].nodes = @ + value]
               /\ pc' = "unmake"
               /\ UNCHANGED result
    /\ last' = NoOp
    /\ UNCHANGED <<mailbox, pieces, colors, side_to_move, state_stack, state_idx,
                   scenario, root_depth, snaps>>
    /\ UNCHANGED unit_vars

\* the steps of a running perft call
PerftStep ==
    \/ \E d \in 0..(MaxDepth + 1) : PerftCall(d)
    \/ Make
    \/ Recurse
    \/ Discard
    \/ Unmake
    \/ Return

Next ==
    \/ \E s \in PerftRuns : FromFen(s)
    \/ PerftStep

Spec == Init /\ [][Next]_vars

NextRights ==
    \/ \E s \in RightsRuns : FromFen(s)
    \/ PerftStep

SpecRights == Init /\ [][NextRights]_vars

(**************************************************************************)
(* perft.rs / board.rs: the boards a process creates one after another    *)
(**************************************************************************)
\* const RUNS of benchmark_perft: the boards created after the first
RUNS == 5

\* Board::new() once the run on the board before is over (the loop of
\* benchmark_perft; perft_n, kiwipete and main create theirs the same way):
\* Board::default fills attack_tables with a new AttackTables::new().  No
\* statement of the sources calls init_attack_tables, so the OnceLock
\* ATTACK_TABLES stays empty.
BoardNew ==
    /\ pc = "done"
    /\ Len(board_tables) < 1 + RUNS
    /\ SetBoard(DefaultBoard)
    /\ pc' = "new"
    /\ scenario' = 0
    /\ root_depth' = None
    /\ frames' = << >>
    /\ result' = None
    /\ snaps' = << >>
    /\ last' = NoOp
    /\ tables_built' = tables_built + 1
    /\ board_tables' = Append(board_tables, tables_built + 1)
    /\ UNCHANGED <<ATTACK_TABLES, fen_result, probe, magics, offsets, flat_table, search>>

NextBoards ==
    \/ Next
    \/ BoardNew

SpecBoards == Init /\ [][NextBoards]_vars

(**************************************************************************)
(* board.rs: make_move after make_move with no unmake_move, from the      *)
(* start position                                                         *)
(**************************************************************************)
\* the knights of the king side step out and back, so that every ply has a
\* move to make
ShuffleSquares == {G1, F3, G8, F6}
PlyMoves(b) ==
    {m \in Range(generate_all_moves(b)) :
        from_square(m) \in ShuffleSquares /\ to_square(m) \in ShuffleSquares}

\* board.make_move(m) on the board the make_move before left.  The frame is
\* written through state_stack[self.state_idx] after the increment
\* (board.rs:152-153): an index outside the array panics there, with the
\* pieces moved, before the side is flipped.
MakePly ==
    /\ pc \in {"ready", "ply"}
    /\ scenario = 1
    /\ \E m \in PlyMoves(Board) :
         LET made == make_move(Board, m)
             slot == state_idx + 1
         IN /\ IF slot \in DOMAIN state_stack
               THEN /\ SetBoard(made)
                    /\ pc' = "ply"
               ELSE /\ SetBoard([made EXCEPT !.side_to_move = side_to_move,
                                             !.state_stack = state_stack])
                    /\ pc' = "panic"
            /\ probe' = [op |-> "make_move", m |-> m, ply |-> state_idx + 1,
                         slot |-> slot]
    /\ UNCHANGED <<scenario, root_depth, frames, result, snaps, last,
                   tables_built, board_tables, ATTACK_TABLES, fen_result,
                   magics, offsets, flat_table, search>>

NextPlies ==
    \/ FromFen(1)
    \/ MakePly

SpecPlies == Init /\ [][NextPlies]_vars

(**************************************************************************)
(* moves.rs, attack.rs: the functions of no state, called on every input  *)
(**************************************************************************)
\* enum MoveType
MoveTypes ==
    {Normal, DoublePush, KingCastle, QueenCastle, Capture, EnPassant,
     PromotionN, PromotionB, PromotionR, PromotionQ,
     PromotionCaptureN, PromotionCaptureB, PromotionCaptureR, PromotionCaptureQ}

\* Move::new_normal (movetype None) or Move::new_special, and every
\* accessor of the move built; get_promotion_piece is called on promotions
EncodeMove ==
    /\ pc = "new"
    /\ probe = NoProbe
    /\ search.kind = None
    /\ \E from_sq \in Squares, to_sq \in Squares, movetype \in MoveTypes \cup {None} :
       LET m == IF movetype = None THEN new_normal(from_sq, to_sq)
                ELSE new_special(from_sq, to_sq, movetype)
       IN probe' = [op |-> "move", from |-> from_sq, to |-> to_sq,
                    movetype |-> movetype, encoding |-> m,
                    from_square |-> from_square(m), to_square |-> to_square(m),
                    get_type |-> move_type(m),
                    is_capture |-> is_capture(m), is_promotion |-> is_promotion(m),
                    is_castling |-> is_castling(m), is_enpassant |-> is_enpassant(m),
                    is_double_push |-> is_double_push(m),
                    is_quiet |-> is_quiet(m), is_noisy |-> is_noisy(m),
                    get_promotion_piece |->
                        IF is_promotion(m) THEN get_promotion_piece(m) ELSE None]
    /\ UNCHANGED <<mailbox, pieces, colors, side_to_move, state_stack, state_idx,
                   pc, scenario, root_depth, frames, result, snaps, last,
                   tables_built, board_tables, ATTACK_TABLES, fen_result,
                   magics, offsets, flat_table, search>>

\* the three pawn tables of AttackTables::new read for White on a square
\* and for Black on the square of the same file on the opposite rank
PawnLookup ==
    /\ pc = "new"
    /\ probe = NoProbe
    /\ search.kind = None
    /\ \E sq \in Squares :
       LET opposite == (7 - RankOf(sq)) * 8 + FileOf(sq)
       IN probe' = [op |-> "pawn", sq |-> sq, opposite |-> opposite,
                    white |-> [push |-> pawn_push[White][sq],
                               capture |-> pawn_capture[White][sq],
                               double_push |-> pawn_double_push[White][sq]],
                    black |-> [push |-> pawn_push[Black][opposite],
                               capture |-> pawn_capture[Black][opposite],
                               double_push |-> pawn_double_push[Black][opposite]]]
    /\ UNCHANGED <<mailbox, pieces, colors, side_to_move, state_stack, state_idx,
                   pc, scenario, root_depth, frames, result, snaps, last,
                   tables_built, board_tables, ATTACK_TABLES, fen_result,
                   magics, offsets, flat_table, search>>

NextUnits ==
    \/ EncodeMove
    \/ PawnLookup

SpecUnits == Init /\ [][NextUnits]_vars

(**************************************************************************)
(* magics.rs: search_loop, one action per candidate, and the lookup       *)
(**************************************************************************)
\* how many squares of each kind the search is followed over, how many
\* candidates may fail per square, how many blockers a looked-up board has
RookSquares == 1
BishopSquares == 3
MaxAttempts == 1
MaxBlockers == 1

\* candidates sparse_random can draw, per square: some that search_loop
\* accepts (two, or one for the later rook squares), one that collides and
\* one that the entropy test rejects
RookCandidates ==
    << {<<0, 192, 32, 128, 208, 4, 128, 0>>, <<0, 64, 16, 128, 32, 0, 128, 32>>,
        <<5, 16, 0, 2, 32, 64, 128, 129>>, <<64, 8, 16, 0, 0, 64, 8, 64>>},
       {<<136, 0, 32, 2, 64, 16, 128, 1>>,
        <<0, 136, 128, 2, 0, 0, 65, 128>>, <<0, 0, 20, 8, 0, 129, 0, 0>>},
       {<<0, 65, 8, 16, 0, 32, 0, 1>>,
        <<0, 64, 0, 0, 36, 8, 40, 1>>, <<0, 0, 64, 0, 2, 0, 35, 4>>},
       {<<4, 0, 1, 16, 8, 32, 0, 1>>,
        <<8, 4, 0, 132, 4, 1, 40, 32>>, <<96, 3, 66, 0, 0, 4, 0, 2>>} >>
BishopCandidates ==
    << {<<32, 128, 0, 156, 0, 32, 48, 0>>, <<160, 0, 68, 104, 6, 16, 16, 2>>,
        <<145, 0, 4, 1, 0, 16, 4, 128>>, <<40, 128, 128, 1, 1, 0, 0, 192>>},
       {<<0, 128, 68, 0, 4, 144, 4, 32>>, <<0, 64, 33, 133, 20, 8, 96, 32>>,
        <<64, 1, 16, 132, 4, 32, 1, 0>>, <<22, 128, 128, 8, 0, 64, 64, 33>>},
       {<<80, 8, 32, 0, 4, 130, 8, 128>>, <<0, 128, 193, 16, 5, 68, 65, 32>>,
        <<0, 0, 2, 136, 8, 2, 20, 0>>, <<64, 0, 69, 8, 0, 0, 0, 8>>},
       {<<130, 72, 0, 134, 32, 4, 4, 1>>, <<128, 0, 16, 128, 0, 4, 17, 0>>,
        <<8, 131, 0, 33, 4, 64, 132, 2>>, <<33, 1, 128, 0, 2, 0, 0, 100>>} >>

DeltasOf(kind) == IF kind = Rook THEN ROOK_DELTAS ELSE BISHOP_DELTAS
SearchedSquares(kind) == IF kind = Rook THEN RookSquares ELSE BishopSquares
Candidates(kind, sq) ==
    IF kind = Rook THEN RookCandidates[sq + 1] ELSE BishopCandidates[sq + 1]

\* flat_table[j]: what search_loop wrote, Bitboard(0) of MagicTables::new
\* where it has not written
FlatAt(j) == IF j \in DOMAIN flat_table THEN flat_table[j] ELSE {}

\* generate_magics enters search_loop for the rook or the bishop tables
SearchLoop(kind) ==
    /\ pc = "new"
    /\ search.kind = None
    /\ search' = [kind |-> kind, sq |-> 0, offset |-> 0, attempt |-> 0]
    /\ UNCHANGED <<mailbox, pieces, colors, side_to_move, state_stack, state_idx,
                   pc, scenario, root_depth, frames, result, snaps, last,
                   tables_built, board_tables, ATTACK_TABLES, fen_result, probe,
                   magics, offsets, flat_table>>

\* one turn of 'search: a candidate is drawn, rejected or accepted; an
\* accepted one is recorded and its table copied behind the tables so far.
\* (The run is followed over MaxAttempts rejections a square, far from the
\* 10,000,000 candidates after which search_loop leaves a square unwritten.)
Attempt ==
    /\ search.kind # None
    /\ search.sq < SearchedSquares(search.kind)
    /\ \E magic \in Candidates(search.kind, search.sq) :
       \E t \in {try_magic(search.sq, DeltasOf(search.kind), magic)} :
       LET sq == search.sq
           mask == relevant_occupancy_mask(sq, DeltasOf(search.kind))
           table_size == 2 ^ Cardinality(mask)
           offset == search.offset
       IN IF t.rejected \/ t.collision
          THEN /\ search.attempt < MaxAttempts
               /\ search' = [search EXCEPT !.attempt = @ + 1]
               /\ UNCHANGED <<magics, offsets, flat_table>>
          ELSE /\ magics' = [magics EXCEPT ![sq] = magic]
               /\ offsets' = [offsets EXCEPT ![sq] = offset]
               /\ flat_table' =
                     [j \in 0..(offset + table_size - 1) |->
                         IF j < offset THEN FlatAt(j)
                         ELSE unwrap_or_zero(t.table[j - offset])]
               /\ search' = [search EXCEPT !.sq = @ + 1,
                                           !.offset = @ + table_size,
                                           !.attempt = 0]
    /\ UNCHANGED <<mailbox, pieces, colors, side_to_move, state_stack, state_idx,
                   pc, scenario, root_depth, frames, result, snaps, last,
                   tables_built, board_tables, ATTACK_TABLES, fen_result, probe>>

\* the occupancies of at most n pieces standing on squares of S
RECURSIVE Blockers(_, _)
Blockers(S, n) ==
    IF n = 0 THEN {{}}
    ELSE LET fewer == Blockers(S, n - 1)
         IN fewer \cup {o \cup {x} : o \in fewer, x \in S}

\* Tor::get_attacks / Alfe::get_attacks on a board with the given occupancy
\* (a lookup only reads the tables: one lookup is followed after a search)
GetAttacks ==
    /\ search.kind # None
    /\ search.sq = SearchedSquares(search.kind)
    /\ probe = NoProbe
    /\ \E sq \in 0..(search.sq - 1) :
       \E occupancy \in Blockers(sliding_attack(sq, DeltasOf(search.kind), {}),
                                MaxBlockers) :
       LET deltas == DeltasOf(search.kind)
           mask == relevant_occupancy_mask(sq, deltas)
           relevant_occupancy == occupancy \cap mask
           idx == magic_index(relevant_occupancy, mask, magics[sq])
       IN probe' = [op |-> "get_attacks", kind |-> search.kind, sq |-> sq,
                       occupancy |-> occupancy, out |-> FlatAt(offsets[sq] + idx)]
    /\ UNCHANGED <<mailbox, pieces, colors, side_to_move, state_stack, state_idx,
                   pc, scenario, root_depth, frames, result, snaps, last,
                   tables_built, board_tables, ATTACK_TABLES, fen_result,
                   magics, offsets, flat_table, search>>

NextMagic ==
    \/ \E kind \in {Rook, Bishop} : SearchLoop(kind)
    \/ Attempt
    \/ GetAttacks

SpecMagic == Init /\ [][NextMagic]_vars

(**************************************************************************)
(* board.rs: from_fen called by a user of the board, on whatever the      *)
(* board holds, with well-formed and ill-formed input                     *)
(**************************************************************************)
RECURSIVE JoinSlash(_)
JoinSlash(ranks) ==
    IF Len(ranks) = 1 THEN ranks[1]
    ELSE Head(ranks) \o <<"/">> \o JoinSlash(Tail(ranks))

\* 4k3/8/8/8/8/8/P7/4K3, rank by rank
BaseRanks ==
    << <<"4", "k", "3">>, <<"8">>, <<"8">>, <<"8">>, <<"8">>, <<"8">>,
       <<"P", "7">>, <<"4", "K", "3">> >>

\* ranks that do not total 8: too short, too long by a digit, by a piece
\* behind the eighth file, by a ninth piece, by a piece among the digits
BadRanks ==
    { <<"7">>, <<"p", "6">>, <<"9">>, <<"8", "p">>,
      <<"p", "p", "p", "p", "p", "p", "p", "p", "p">>, <<"4", "p", "4">> }

BoardParts ==
    {JoinSlash(BaseRanks)}
    \cup {JoinSlash([BaseRanks EXCEPT ![k] = r]) : k \in 1..Len(BaseRanks), r \in BadRanks}
    \cup {JoinSlash(BaseRanks \o << <<"8">> >>), JoinSlash(BaseRanks \o << <<"7", "p">> >>)}
    \cup {JoinSlash(SubSeq(BaseRanks, 1, n)) : n \in {1, Len(BaseRanks) - 1}}
SideParts == { <<"w">>, <<"b">>, <<"x">>, <<"w", "b">> }
CastlingParts == { <<"K", "Q", "k", "q">>, <<"-">>, <<"K", "x">> }
EnPassantParts ==
    { <<"-">>, <<"e", "3">>, <<"a", "6">>, <<"e">>, <<"3">>, <<"e", "9">>, <<"i", "3">>,
      <<"e", "0">>, <<"E", "3">>, <<"3", "e">>, <<"e", "3", "x">>, <<"-", "-">> }

\* the FENs handed to from_fen: one field varied at a time, and the two
\* inputs that lack the side or every field
FenInputs ==
    { << >>, <<JoinSlash(BaseRanks)>> }
    \cup {<<b, <<"w">>, <<"-">>, <<"-">>, <<"0">>, <<"1">> >> : b \in BoardParts}
    \cup {<<JoinSlash(BaseRanks), sd, <<"-">>, <<"-">>, <<"0">>, <<"1">> >> : sd \in SideParts}
    \cup {<<JoinSlash(BaseRanks), <<"w">>, c, <<"-">>, <<"0">>, <<"1">> >> : c \in CastlingParts}
    \cup {<<JoinSlash(BaseRanks), <<"b">>, <<"-">>, ep, <<"0">>, <<"1">> >> : ep \in EnPassantParts}

\* board.from_fen(fen) on a new board or on the board an earlier call
\* left; a panic ends the run
ImportFen(fen) ==
    /\ pc \in {"new", "fen"}
    /\ search.kind = None
    /\ \E debug \in BOOLEAN :
         LET r == from_fen(Board, fen, debug)
         IN /\ SetBoard(r.board)
            /\ fen_result' = r.result
            /\ pc' = IF r.result = "panic" THEN "panic" ELSE "fen"
    /\ probe' = [op |-> "from_fen", fen |-> fen]
    /\ UNCHANGED <<scenario, root_depth, frames, result, snaps, last,
                   tables_built, board_tables, ATTACK_TABLES,
                   magics, offsets, flat_table, search>>

NextFen == \E fen \in FenInputs : ImportFen(fen)

SpecFen == Init /\ [][NextFen]_vars

(**************************************************************************)
(* The attack functions called on their own                               *)
(**************************************************************************)
\* the occupancies handed to sliding_attack for a square: the empty and the
\* full board, and one or two pieces on the square or on the squares its
\* rays reach on an empty board, alone or with every other square occupied
Occupancies(sq, deltas) ==
    LET reach == sliding_attack(sq, deltas, {}) \cup {sq}
    IN {{}, Squares}
       \cup {{a, b} : a, b \in reach}
       \cup {{a, b} \cup (Squares \ reach) : a, b \in reach}

\* sliding_attack(sq, deltas, occupancy) next to the ray walk over
\* occupancy & relevant_occupancy_mask(sq, deltas)
RayWalk ==
    /\ pc = "new"
    /\ probe = NoProbe
    /\ search.kind = None
    /\ \E sq \in Squares, kind \in {Rook, Bishop} :
       \E mask \in {relevant_occupancy_mask(sq, DeltasOf(kind))} :
       \E occupancy \in Occupancies(sq, DeltasOf(kind)) :
           probe' = [op |-> "sliding_attack", sq |-> sq, kind |-> kind,
                     occupancy |-> occupancy, mask |-> mask,
                     attack |-> sliding_attack(sq, DeltasOf(kind), occupancy),
                     relevant_attack |->
                         sliding_attack(sq, DeltasOf(kind), occupancy \cap mask)]
    /\ UNCHANGED <<mailbox, pieces, colors, side_to_move, state_stack, state_idx,
                   pc, scenario, root_depth, frames, result, snaps, last,
                   tables_built, board_tables, ATTACK_TABLES, fen_result,
                   magics, offsets, flat_table, search>>

\* the leaper tables read for a pair of squares, in both directions
LeaperLookup ==
    /\ pc = "new"
    /\ probe = NoProbe
    /\ search.kind = None
    /\ \E a \in Squares, b \in Squares :
       probe' = [op |-> "leaper", a |-> a, b |-> b,
                 knight_a |-> knight[a], knight_b |-> knight[b],
                 king_a |-> king[a], king_b |-> king[b],
                 white_capture_a |-> pawn_capture[White][a],
                 black_capture_b |-> pawn_capture[Black][b]]
    /\ UNCHANGED <<mailbox, pieces, colors, side_to_move, state_stack, state_idx,
                   pc, scenario, root_depth, frames, result, snaps, last,
                   tables_built, board_tables, ATTACK_TABLES, fen_result,
                   magics, offsets, flat_table, search>>

NextTables ==
    \/ RayWalk
    \/ LeaperLookup

SpecTables == Init /\ [][NextTables]_vars

(**************************************************************************)
(* The properties                                                         *)
(**************************************************************************)
\* the FEN the run imported
ImportedFen == IF scenario = 0 THEN << >> ELSE Scenarios[scenario].fen

\* the position each run imports
RootBoards ==
    [s \in 1..Len(Scenarios) |-> from_fen(DefaultBoard, Scenarios[s].fen, FALSE).board]

\* the squares a piece of the given kind and colour standing on p attacks,
\* read forward from the piece over the whole occupancy
AttacksFrom(b, kind, color, p) ==
    CASE kind = Pawn -> pawn_capture[color][p]
      [] kind = Knight -> knight[p]
      [] kind = King -> king[p]
      [] kind = Bishop -> sliding_attack(p, BISHOP_DELTAS, occupied_squares(b))
      [] kind = Rook -> sliding_attack(p, ROOK_DELTAS, occupied_squares(b))
      [] kind = Queen -> sliding_attack(p, BISHOP_DELTAS, occupied_squares(b))
                           \cup sliding_attack(p, ROOK_DELTAS, occupied_squares(b))

\* some piece of colour `by` attacks sq
Attacked(b, sq, by) ==
    \E kind \in Pawn..King :
        \E p \in b.pieces[kind] \cap b.colors[by] :
            sq \in AttacksFrom(b, kind, by, p)

KingSquares(b, color) == b.pieces[King] \cap b.colors[color]

OneKingEach(b) ==
    \A c \in {White, Black} : Cardinality(KingSquares(b, c)) = 1

\* C1: unmake_move(m) after make_move(m) leaves mailbox, pieces[], colors[],
\* side_to_move, the ply index and the current state frame as they were
\* before make_move, for every generated move.
C1_MakeUnmakeRestores ==
    last.op = "unmake" => PositionOf(Board) = last.pre

\* the bitboards-and-frame part of the position, which the pair does restore
C1_BitboardsRestored ==
    last.op = "unmake" =>
        /\ pieces = last.pre.pieces
        /\ colors = last.pre.colors
        /\ side_to_move = last.pre.side_to_move
        /\ state_idx = last.pre.state_idx
        /\ state_stack[state_idx] = last.pre.frame

MailboxMatches(b) ==
    \A s \in Squares :
        LET cs == {c \in {White, Black} : s \in b.colors[c]}
            ks == {k \in Pawn..King : s \in b.pieces[k]}
        IN /\ (b.mailbox[s] # None) <=> (Cardinality(cs) = 1 /\ Cardinality(ks) = 1)
           /\ b.mailbox[s] # None =>
                 /\ cs = {get_color(b.mailbox[s])}
                 /\ ks = {get_type(b.mailbox[s])}

\* C2: after every make_move and every unmake_move, a square holds a mailbox
\* piece iff it is set in exactly one colors[] and exactly one pieces[]
\* bitboard, and the colour and kind of the piece are those of the bitboards.
C2_MailboxMatchesBitboards ==
    last.op \in {"make", "unmake"} => MailboxMatches(Board)

\* C3: in every state colors[White] and colors[Black] are disjoint, the six
\* pieces[] bitboards are pairwise disjoint, and the union of the pieces[]
\* bitboards is colors[White] | colors[Black].
C3_BitboardsPartition ==
    /\ colors[White] \cap colors[Black] = {}
    /\ \A j, k \in Pawn..King : j # k => pieces[j] \cap pieces[k] = {}
    /\ UNION {pieces[k] : k \in Pawn..King} = colors[White] \cup colors[Black]

\* a promotion with capture has been made and taken back
C3_Witness ==
    /\ last.op = "unmake"
    /\ is_promotion(last.m) /\ is_capture(last.m)
    /\ colors[White] # {} /\ colors[Black] # {}

\* the en-passant square of the position is none, or the empty square behind
\* an enemy pawn that can just have made a double push
EnPassantGenuine(b) ==
    LET ep == en_passant_square(b)
        them == Opp(b.side_to_move)
        pawn_sq == IF them = Black THEN ep - 8 ELSE ep + 8
        origin == IF them = Black THEN ep + 8 ELSE ep - 8
    IN ep # None =>
          /\ RankOf(ep) = (IF them = Black THEN 5 ELSE 2)
          /\ ep \notin occupied_squares(b)
          /\ origin \notin occupied_squares(b)
          /\ pawn_sq \in b.pieces[Pawn] \cap b.colors[them]

\* a position a game can be in when it is the side to move's turn
RootLegal(b) ==
    /\ OneKingEach(b)
    /\ \A k \in KingSquares(b, Opp(b.side_to_move)) : ~Attacked(b, k, b.side_to_move)
    /\ EnPassantGenuine(b)

RightsHome ==
    << [bit |-> WK, color |-> White, king |-> E1, rook |-> H1],
       [bit |-> WQ, color |-> White, king |-> E1, rook |-> A1],
       [bit |-> BK, color |-> Black, king |-> E8, rook |-> H8],
       [bit |-> BQ, color |-> Black, king |-> E8, rook |-> A8] >>

\* the move of snapshot sn took the king or the corner rook of r away from
\* its square, or captured that rook on its corner
Disturbs(sn, r) ==
    LET from == from_square(sn.m)
        to == to_square(sn.m)
        ours == sn.pos.colors[r.color]
    IN \/ from = r.king /\ from \in sn.pos.pieces[King] \cap ours
       \/ from = r.rook /\ from \in sn.pos.pieces[Rook] \cap ours
       \/ to = r.rook /\ to \in sn.pos.pieces[Rook] \cap ours

\* C5: a castling-rights bit is zero in the current frame whenever a move of
\* the current history moved that side's king or that corner's rook or
\* captured that rook; and a bit that is set finds the king on E1/E8 and the
\* rook on its corner.
C5_CastlingRights ==
    \A i \in 1..4 :
        LET r == RightsHome[i]
        IN /\ (\E j \in 1..Len(snaps) : Disturbs(snaps[j], r))
                 => r.bit \notin castling_rights(Board)
           /\ (pc \notin {"new", "panic"} /\ r.bit \in castling_rights(Board))
                 => /\ r.king \in pieces[King] \cap colors[r.color]
                    /\ r.rook \in pieces[Rook] \cap colors[r.color]

\* from the start position the white king has left E1 at the third ply, and
\* both white bits are gone while Black keeps its rights
C5_Witness ==
    /\ ImportedFen = StartFen
    /\ pc = "made"
    /\ Len(snaps) = 3
    /\ Disturbs(snaps[3], RightsHome[1])
    /\ from_square(snaps[3].m) = E1
    /\ castling_rights(Board) = {BK, BQ}

\* C6: after make_move(m) the current frame's en_passant is set iff m is a
\* double push and is then the square the pawn skipped, so a following move
\* that is no double push clears it; unmake_move makes the previous frame's
\* en_passant current again.
C6_EnPassant ==
    /\ last.op = "make" =>
          /\ (en_passant_square(Board) # None) <=> is_double_push(last.m)
          /\ is_double_push(last.m) =>
                /\ 2 * en_passant_square(Board)
                      = from_square(last.m) + to_square(last.m)
                /\ en_passant_square(Board)
                      = (IF last.pre.side_to_move = White
                         THEN to_square(last.m) - 8 ELSE to_square(last.m) + 8)
    /\ last.op = "unmake" => en_passant_square(Board) = last.pre.frame.en_passant

\* a double push set the square and the reply, no double push, cleared it
C6_Witness ==
    /\ last.op = "make"
    /\ Len(snaps) >= 2
    /\ is_double_push(snaps[Len(snaps) - 1].m)
    /\ last.pre.frame.en_passant # None
    /\ ~is_double_push(last.m)
    /\ en_passant_square(Board) = None

\* C7: every make_move(m) of perft is followed by unmake_move(m) before the
\* node tries its next move, legal or not, and perft recurses only into
\* positions where the king of the side that just moved is not attacked.
C7_MakeUnmakePaired ==
    /\ pc = "loop" => Len(snaps) = Len(frames) - 1
    /\ pc \in {"made", "unmake"} =>
          /\ Len(snaps) = Len(frames)
          /\ snaps[Len(snaps)].m = CurrentMove
    /\ pc = "done" => snaps = << >>
    /\ last.op = "unmake" => last.m = last.made
    /\ (pc = "loop" /\ Len(frames) >= 2) =>
          \A k \in KingSquares(Board, Opp(side_to_move)) :
              ~Attacked(Board, k, side_to_move)

\* a move that left the mover's king attacked is about to be taken back
C7_Witness ==
    /\ pc = "unmake"
    /\ Len(snaps) = Len(frames)
    /\ \E k \in KingSquares(Board, Opp(side_to_move)) : Attacked(Board, k, side_to_move)

\* C8: perft on the start position returns 20 at depth 1 and 400 at depth 2.
C8_PerftStartpos ==
    (pc = "done" /\ ImportedFen = StartFen) =>
        /\ root_depth = 1 => result = 20
        /\ root_depth = 2 => result = 400

C8_Witness ==
    /\ pc = "done"
    /\ ImportedFen = StartFen
    /\ root_depth = 2
    /\ result = 400

\* C9: perft at depth 1 on Kiwipete returns 48: the generated moves that
\* pass the legality filter are 48, and both white castles are among them.
C9_PerftKiwipete ==
    (ImportedFen = KiwipeteFen /\ root_depth = 1) =>
        /\ pc = "done" => result = 48
        /\ (pc = "loop" /\ Len(frames) = 1) =>
              /\ new_special(E1, G1, KingCastle) \in Range(Top.list)
              /\ new_special(E1, C1, QueenCastle) \in Range(Top.list)
        /\ (pc = "made" /\ is_castling(last.m)) =>
              \A k \in KingSquares(Board, White) : ~Attacked(Board, k, Black)

C9_Witness ==
    /\ ImportedFen = KiwipeteFen
    /\ root_depth = 1
    /\ pc = "done"
    /\ result = 48

\* the castles of the side to move: rights bit, squares between king and
\* rook, squares the king stands on or crosses, and the move
CastleSides(color) ==
    IF color = White
    THEN {[bit |-> WK, between |-> {F1, G1}, path |-> {E1, F1, G1},
           m |-> new_special(E1, G1, KingCastle)],
          [bit |-> WQ, between |-> {B1, C1, D1}, path |-> {E1, D1, C1},
           m |-> new_special(E1, C1, QueenCastle)]}
    ELSE {[bit |-> BK, between |-> {F8, G8}, path |-> {E8, F8, G8},
           m |-> new_special(E8, G8, KingCastle)],
          [bit |-> BQ, between |-> {B8, C8, D8}, path |-> {E8, D8, C8},
           m |-> new_special(E8, C8, QueenCastle)]}

\* the board is the one the innermost list of moves was generated on
AtGenerated == pc = "loop" /\ Top.depth > 0 /\ Len(snaps) = Len(frames) - 1

\* C10: a castle is generated iff its rights bit is set, the squares between
\* king and rook are empty and none of the king's origin, transit and
\* destination squares is attacked by the opponent; the B-file square of
\* the queen side may be attacked.
C10_CastlingGenerated ==
    AtGenerated =>
        \A c \in CastleSides(side_to_move) :
            (c.m \in Range(generate_castling(Board, side_to_move = White)))
              <=> /\ c.bit \in castling_rights(Board)
                  /\ c.between \cap occupied_squares(Board) = {}
                  /\ \A sq \in c.path : ~Attacked(Board, sq, Opp(side_to_move))

\* Black castles queen side while White attacks the empty square B8
C10_Witness ==
    /\ AtGenerated
    /\ side_to_move = Black
    /\ Attacked(Board, B8, White)
    /\ B8 \notin occupied_squares(Board)
    /\ new_special(E8, C8, QueenCastle) \in Range(Top.list)
    /\ new_special(E8, C8, QueenCastle) \in Range(generate_castling(Board, FALSE))

\* the squares search_loop has finished, with their masks
Searched == IF search.kind = None THEN {} ELSE 0..(search.sq - 1)
MaskOf(sq) == relevant_occupancy_mask(sq, DeltasOf(search.kind))

FenError == probe.op = "from_fen" /\ fen_result \notin {"Ok", "panic"}

\* C12: whenever from_fen returns an error the position is left reset and
\* empty: no piece in the mailbox, every bitboard zero, ply index 0,
\* whatever the board held before and however far the parse got.
C12_ErrorLeavesEmpty ==
    FenError =>
        /\ \A sq \in Squares : mailbox[sq] = None
        /\ \A k \in DOMAIN pieces : pieces[k] = {}
        /\ \A c \in DOMAIN colors : colors[c] = {}
        /\ state_idx = 0

\* the squares a rank of the board field takes, and its piece letters
RECURSIVE RankTotal(_)
RankTotal(cs) ==
    IF cs = << >> THEN 0
    ELSE (IF Head(cs) \in Digits THEN to_digit(Head(cs)) ELSE 1) + RankTotal(Tail(cs))
RankLetters(cs) == {k \in 1..Len(cs) : cs[k] \in PieceChars}

\* the ranks of the board field handed to from_fen, and the first of them
\* that does not total 8 (0: none)
ProbedRanks == SplitSlash(probe.fen[1])
FirstBadRank ==
    IF \E k \in 1..Len(ProbedRanks) : RankTotal(ProbedRanks[k]) # 8
    THEN CHOOSE k \in 1..Len(ProbedRanks) :
            /\ RankTotal(ProbedRanks[k]) # 8
            /\ \A j \in 1..(k - 1) : RankTotal(ProbedRanks[j]) = 8
    ELSE 0

\* C13: a board field with a rank that does not total 8, too short or too
\* long, the top rank included, makes from_fen return "Invalid FEN rank
\* length"; it does not panic, and the pieces of that rank are all written
\* on squares of that rank.
C13_BadRankRejected ==
    (probe.op = "from_fen" /\ Len(probe.fen) >= 2 /\ FirstBadRank \in 1..8) =>
        /\ fen_result = "Invalid FEN rank length"
        /\ Cardinality({sq \in Squares : /\ mailbox[sq] # None
                                         /\ RankOf(sq) = 8 - FirstBadRank})
             = Cardinality(RankLetters(ProbedRanks[FirstBadRank]))

\* an en-passant field that is "-" or a file letter and a rank digit
WellFormedEnPassant(ep) ==
    \/ ep = <<"-">>
    \/ /\ Len(ep) = 2
       /\ ep[1] \in {"a", "b", "c", "d", "e", "f", "g", "h"}
       /\ ep[2] \in {"1", "2", "3", "4", "5", "6", "7", "8"}

\* from_fen was handed a FEN whose first three fields it accepts
ReachesEnPassant ==
    /\ probe.op = "from_fen"
    /\ Len(probe.fen) >= 4
    /\ FirstBadRank = 0
    /\ Len(ProbedRanks) = 8
    /\ probe.fen[2] \in {<<"w">>, <<"b">>}
    /\ CastlingKnown(probe.fen[3])

\* C14: every en-passant field that is neither "-" nor a file letter a-h
\* followed by a rank digit 1-8, fields of one character and fields with
\* trailing characters included, makes from_fen return "Invalid en passant
\* square": no panic, no acceptance.
C14_EnPassantRejected ==
    (ReachesEnPassant /\ ~WellFormedEnPassant(probe.fen[4])) =>
        fen_result = "Invalid en passant square"

\* C15: however many boards are created, the attack tables are constructed
\* once and every board reads that one construction.
C15_TablesBuiltOnce ==
    /\ tables_built = 1
    /\ \A i \in DOMAIN board_tables : board_tables[i] = board_tables[1]

\* C16: each of the first 128 consecutive make_move calls after an import
\* stores its frame in a slot of the 128-slot stack; no slot outside the
\* stack is accessed.
C16_HistoryHolds128 ==
    (probe.op = "make_move" /\ probe.ply <= MAX_PLY) =>
        /\ probe.slot \in 0..(MAX_PLY - 1)
        /\ pc # "panic"

\* the four tag bits of the kind a move was built with
TagOf(movetype) == IF movetype = None THEN Normal ELSE movetype

\* C17: a move built from an origin, a destination and one of the 14 kinds
\* decodes to the same origin, destination and kind; is_capture holds
\* exactly for the tags 0100, 0101, 1100..1111, is_promotion for
\* 1000..1111, is_castling for 0010 and 0011, is_enpassant for 0101,
\* is_double_push for 0001, and a promotion yields knight, bishop, rook,
\* queen for the low tag bits 00, 01, 10, 11.
C17_MoveRoundTrip ==
    probe.op = "move" =>
        LET tag == TagOf(probe.movetype)
        IN /\ probe.from_square = probe.from
           /\ probe.to_square = probe.to
           /\ probe.get_type = tag
           /\ probe.is_capture <=>
                 tag \in {Capture, EnPassant, PromotionCaptureN, PromotionCaptureB,
                          PromotionCaptureR, PromotionCaptureQ}
           /\ probe.is_promotion <=>
                 tag \in {PromotionN, PromotionB, PromotionR, PromotionQ,
                          PromotionCaptureN, PromotionCaptureB,
                          PromotionCaptureR, PromotionCaptureQ}
           /\ probe.is_castling <=> tag \in {KingCastle, QueenCastle}
           /\ probe.is_enpassant <=> tag = EnPassant
           /\ probe.is_double_push <=> tag = DoublePush
           /\ tag \in {PromotionN, PromotionCaptureN} => probe.get_promotion_piece = Knight
           /\ tag \in {PromotionB, PromotionCaptureB} => probe.get_promotion_piece = Bishop
           /\ tag \in {PromotionR, PromotionCaptureR} => probe.get_promotion_piece = Rook
           /\ tag \in {PromotionQ, PromotionCaptureQ} => probe.get_promotion_piece = Queen

\* a queen-side castle from e8 and a capturing promotion to a rook on h8
\* have been built and decoded
C17_Witness ==
    /\ probe.op = "move"
    /\ \/ /\ probe.movetype = QueenCastle
          /\ probe.from = E8
          /\ probe.to = C8
          /\ probe.is_castling
       \/ /\ probe.movetype = PromotionCaptureR
          /\ probe.to = H8
          /\ probe.get_promotion_piece = Rook

\* the masks of the kind searched, and the entries flat_table[offsets[sq]..]
\* that belong to a square
MasksOf(kind) == IF kind = Rook THEN rook_masks ELSE bishop_masks
SlotsOf(sq) == offsets[sq]..(offsets[sq] + 2 ^ Cardinality(MaskOf(sq)) - 1)

mirror(sq) == (7 - (sq \div 8)) * 8 + (sq % 8)
MirrorOf(S) == {mirror(sq) : sq \in S}

\* C19: for every square sq, pawn_push[Black][mirror(sq)] is the vertical
\* mirror of pawn_push[White][sq], and so are pawn_capture and
\* pawn_double_push.
C19_PawnTablesMirror ==
    probe.op = "pawn" =>
        /\ probe.opposite = mirror(probe.sq)
        /\ probe.black.push = MirrorOf(probe.white.push)
        /\ probe.black.capture = MirrorOf(probe.white.capture)
        /\ probe.black.double_push = MirrorOf(probe.white.double_push)

\* a white pawn on its home rank, not on an edge file: one push, two
\* captures and a double push, mirrored for Black
C19_Witness ==
    /\ probe.op = "pawn"
    /\ probe.sq \div 8 = 1
    /\ Cardinality(probe.white.capture) = 2
    /\ Cardinality(probe.black.capture) = 2
    /\ probe.white.double_push = {probe.sq + 16}
    /\ probe.black.double_push = {probe.opposite - 16}

\* the forward reference: the squares in the attack set of some piece of
\* colour `by`
AttackedSquares(b, by) ==
    UNION { UNION {AttacksFrom(b, kind, by, p) : p \in b.pieces[kind] \cap b.colors[by]} :
               kind \in Pawn..King }

\* the board is one perft has not looked at before: just imported, or just
\* changed by make_move (unmake_move leads back to boards already seen)
NewPosition == pc \in {"ready", "made"}

\* C20: for every square sq and colour by, is_square_attacked(sq, by) holds
\* iff some piece of colour by has sq in its forward attack set under the
\* occupancy of the board: the capture squares of a pawn of its own colour,
\* the knight and king tables, the rook, bishop and queen rays up to the
\* first blocker.
C20_ReverseLookup ==
    NewPosition =>
        \A by \in {White, Black} :
            {sq \in Squares : is_square_attacked(Board, sq, by)}
               = AttackedSquares(Board, by)

\* the move just made leaves the mover's king on a square that a rook of
\* the opponent attacks and no pawn, knight or king does, while a blocker
\* keeps that rook from a square further along one of its lines
C20_Witness ==
    /\ pc = "made"
    /\ \E k \in KingSquares(Board, Opp(side_to_move)) :
          /\ is_square_attacked(Board, k, side_to_move)
          /\ \A kind \in {Pawn, Knight, King} :
                \A p \in Board.pieces[kind] \cap Board.colors[side_to_move] :
                   k \notin AttacksFrom(Board, kind, side_to_move, p)
          /\ \E p \in Board.pieces[Rook] \cap Board.colors[side_to_move] :
                /\ k \in AttacksFrom(Board, Rook, side_to_move, p)
                /\ \E sq \in sliding_attack(p, ROOK_DELTAS, {}) :
                      /\ sq \notin AttacksFrom(Board, Rook, side_to_move, p)
                      /\ ~is_square_attacked(Board, sq, side_to_move)

\* perft has just entered a call and generated its list on the board as it is
JustGenerated == pc = "loop" /\ Top.depth > 0 /\ Top.i = 1

\* the colour of the piece the mailbox holds on a square (None: empty)
ColourOn(sq) == IF mailbox[sq] = None THEN None ELSE get_color(mailbox[sq])

\* C21: every move generate_all_moves emits starts on a square holding a
\* piece of the side to move; a capture other than en passant has an
\* opponent piece on its destination, a move without the capture flag has
\* an empty destination, and no destination holds a piece of the mover.
C21_MovesAgreeWithBoard ==
    JustGenerated =>
        \A k \in 1..Len(Top.list) :
            LET m == Top.list[k]
            IN /\ ColourOn(from_square(m)) = side_to_move
               /\ (is_capture(m) /\ ~is_enpassant(m))
                     => ColourOn(to_square(m)) = Opp(side_to_move)
               /\ ~is_capture(m) => ColourOn(to_square(m)) = None
               /\ ColourOn(to_square(m)) # side_to_move

\* the kinds of the moves of a list that go from one square to another,
\* in the order of the list
RECURSIVE KindsBetween(_, _, _)
KindsBetween(list, from, to) ==
    IF list = << >> THEN << >>
    ELSE (IF from_square(Head(list)) = from /\ to_square(Head(list)) = to
          THEN <<move_type(Head(list))>> ELSE << >>)
         \o KindsBetween(Tail(list), from, to)

\* the moves of a list that carry the capture flag
RECURSIVE CapturesOf(_)
CapturesOf(list) ==
    IF list = << >> THEN << >>
    ELSE (IF is_capture(Head(list)) THEN <<Head(list)>> ELSE << >>)
         \o CapturesOf(Tail(list))

\* the pawns of the side to move, and the last rank for them
OwnPawns == pieces[Pawn] \cap colors[side_to_move]
LastRank == IF side_to_move = White THEN 7 ELSE 0
EnPassantTarget ==
    IF en_passant_square(Board) = None THEN {} ELSE {en_passant_square(Board)}

\* C22: for every pawn and every destination in
\* pawn_capture[side][from] & (opponent | ep square) the generated captures
\* are one EnPassant on the en passant square, else the four
\* promotion-captures Q, R, B, N on the last rank, else one Capture; a pawn
\* gets no capture to any other destination.
C22_PawnCapturesExact ==
    JustGenerated =>
        \A p \in OwnPawns : \A d \in Squares :
            KindsBetween(CapturesOf(Top.list), p, d) =
                IF d \in pawn_capture[side_to_move][p]
                        \cap (colors[Opp(side_to_move)] \cup EnPassantTarget)
                THEN IF d \in EnPassantTarget THEN <<EnPassant>>
                     ELSE IF RankOf(d) = LastRank
                          THEN <<PromotionCaptureQ, PromotionCaptureR,
                                 PromotionCaptureB, PromotionCaptureN>>
                          ELSE <<Capture>>
                ELSE << >>

\* a list with an en passant capture, generated for a side that has a
\* second pawn with nothing to capture
C22_Witness ==
    /\ JustGenerated
    /\ \E k \in 1..Len(Top.list) : move_type(Top.list[k]) = EnPassant
    /\ \E p \in OwnPawns :
           \A k \in 1..Len(Top.list) :
               is_capture(Top.list[k]) => from_square(Top.list[k]) # p

\* the moves of a list that do not carry the capture flag
RECURSIVE QuietsOf(_)
QuietsOf(list) ==
    IF list = << >> THEN << >>
    ELSE (IF is_capture(Head(list)) THEN << >> ELSE <<Head(list)>>)
         \o QuietsOf(Tail(list))

\* the square n steps ahead of a pawn of the side to move, its starting
\* rank, and the squares no bitboard holds
Ahead(p, n) == IF side_to_move = White THEN p + 8 * n ELSE p - 8 * n
StartRank == IF side_to_move = White THEN 1 ELSE 6
Vacant(sq) == sq \in Squares /\ sq \notin colors[White] \cup colors[Black]

\* C23: a pawn gets a DoublePush exactly when it stands on its starting
\* rank and both squares ahead of it are empty; a pawn whose single-push
\* square is occupied gets no push at all; a push onto the last rank is
\* the four promotions Q, R, B, N and no Normal move.
C23_PawnQuietsExact ==
    JustGenerated =>
        \A p \in OwnPawns : \A d \in Squares :
            KindsBetween(QuietsOf(Top.list), p, d) =
                IF d = Ahead(p, 1) /\ Vacant(d)
                THEN IF RankOf(d) = LastRank
                     THEN <<PromotionQ, PromotionR, PromotionB, PromotionN>>
                     ELSE <<Normal>>
                ELSE IF /\ d = Ahead(p, 2)
                        /\ RankOf(p) = StartRank
                        /\ Vacant(Ahead(p, 1))
                        /\ Vacant(d)
                     THEN <<DoublePush>>
                     ELSE << >>

\* a list generated with one pawn on its starting rank free to push twice
\* and another on its starting rank whose single-push square is occupied
\* while the square behind it is empty
C23_Witness ==
    /\ JustGenerated
    /\ \E k \in 1..Len(Top.list) : move_type(Top.list[k]) = DoublePush
    /\ \E p \in OwnPawns :
           /\ RankOf(p) = StartRank
           /\ ~Vacant(Ahead(p, 1))
           /\ Vacant(Ahead(p, 2))

\* the kinds of move that take a piece off the board
CaptureKinds ==
    {Capture, EnPassant, PromotionCaptureN, PromotionCaptureB,
     PromotionCaptureR, PromotionCaptureQ}

\* the piece make_move found on the origin of the last move
MoverKind == get_type(last.pre.mailbox[from_square(last.m)])

\* C24: make_move sets the halfmove clock of the new frame to 0 when the
\* mover is a pawn or the move is a capture (en passant and
\* promotion-captures included) and to the previous clock plus 1
\* otherwise; after unmake_move the current frame carries the clock from
\* before the move.
C24_HalfmoveClock ==
    /\ last.op = "make" =>
           state_stack[state_idx].halfmove =
               IF MoverKind = Pawn \/ move_type(last.m) \in CaptureKinds
               THEN 0
               ELSE last.pre.frame.halfmove + 1
    /\ last.op = "unmake" =>
           state_stack[state_idx].halfmove = last.pre.frame.halfmove

\* a piece other than a pawn captures when the clock has started to count
C24_Witness ==
    /\ last.op = "make"
    /\ MoverKind # Pawn
    /\ move_type(last.m) = Capture
    /\ last.pre.frame.halfmove > 0
    /\ state_stack[state_idx].halfmove = 0

\* the squares a rook or a bishop on sq reaches on an empty board
RaySquares(sq, kind) ==
    {t \in Squares \ {sq} :
        IF kind = Rook
        THEN RankOf(t) = RankOf(sq) \/ FileOf(t) = FileOf(sq)
        ELSE \/ RankOf(t) - RankOf(sq) = FileOf(t) - FileOf(sq)
             \/ RankOf(t) - RankOf(sq) = FileOf(sq) - FileOf(t)}

\* the four edge lines of the board
EdgeLines == {rank_1, rank_8, file_A, file_H}

\* C25: sliding_attack(sq, occ) equals sliding_attack(sq, occ & mask(sq))
\* for rook and bishop directions and every occupancy; the mask holds ray
\* squares only, and a ray square is kept exactly when sq lies on every
\* edge rank or file (rank 1, rank 8, file A, file H) the square lies on.
C25_MaskSuffices ==
    probe.op = "sliding_attack" =>
        /\ probe.attack = probe.relevant_attack
        /\ probe.mask \subseteq RaySquares(probe.sq, probe.kind)
        /\ \A t \in RaySquares(probe.sq, probe.kind) :
               t \in probe.mask <=>
                   \A edge \in EdgeLines : t \in edge => probe.sq \in edge

\* an occupied far end of a ray that the walk reaches, with a blocker of
\* the mask on the board as well
C25_Witness ==
    /\ probe.op = "sliding_attack"
    /\ (probe.occupancy \cap probe.attack) \ probe.mask # {}
    /\ probe.occupancy \cap probe.attack \cap probe.mask # {}

\* C27: the leaper tables are reverse-symmetric: b is in knight[a] exactly
\* when a is in knight[b], the same for king, and b is in
\* pawn_capture[White][a] exactly when a is in pawn_capture[Black][b].
C27_LeapersReverse ==
    probe.op = "leaper" =>
        /\ probe.b \in probe.knight_a <=> probe.a \in probe.knight_b
        /\ probe.b \in probe.king_a <=> probe.a \in probe.king_b
        /\ probe.b \in probe.white_capture_a <=> probe.a \in probe.black_capture_b

\* a pair of squares a knight's jump apart, read in both directions
C27_Witness ==
    /\ probe.op = "leaper"
    /\ probe.b \in probe.knight_a
    /\ probe.a \in probe.knight_b
    /\ probe.b \notin probe.king_a

\* C26: when perft(board, d) returns, mailbox, pieces[], colors[],
\* side_to_move, the ply index and the current frame are those of the
\* position perft was called on, and during the call the ply index never
\* exceeds its value on entry plus d.
C26_PerftRestores ==
    /\ pc = "done" => PositionOf(Board) = PositionOf(RootBoards[scenario])
    /\ pc \in {"loop", "made", "unmake"} =>
           state_idx <= RootBoards[scenario].state_idx + root_depth

\* C28: from_fen returns Ok only for a board field of exactly eight ranks;
\* a field of fewer or of more than eight ranks ends in an error, it is
\* neither accepted nor does it panic.
C28_EightRanksOnly ==
    (probe.op = "from_fen" /\ Len(probe.fen) >= 2 /\ Len(ProbedRanks) # 8) =>
        fen_result \notin {"Ok", "panic"}

\* the kinds the MoveType enum lists as quiet and as noisy
QuietKinds == {Normal, DoublePush, KingCastle, QueenCastle}
NoisyKinds == MoveTypes \ QuietKinds

\* C29: is_quiet is true exactly for Normal, DoublePush, KingCastle and
\* QueenCastle, is_noisy exactly for Capture, EnPassant, the promotions and
\* the promotion-captures, and exactly one of the two holds for every move.
C29_QuietOrNoisy ==
    probe.op = "move" =>
        /\ probe.is_quiet <=> probe.get_type \in QuietKinds
        /\ probe.is_noisy <=> probe.get_type \in NoisyKinds
        /\ probe.is_quiet # probe.is_noisy

\* C30: generate_white_moves and generate_black_moves push no castling
\* move: no move of a generated list is a KingCastle or a QueenCastle,
\* whatever the position and the castling rights.
C30_NoCastlingGenerated ==
    JustGenerated =>
        \A k \in 1..Len(Top.list) :
            move_type(Top.list[k]) \notin {KingCastle, QueenCastle}

=============================================================================
